---- MODULE Spec2Model ----
(***************************************************************************)
(* Temple Runner (hand-canvas): the gameplay simulation of                 *)
(* src/temple_runner.py + src/game_logic.py (the same code is repeated in  *)
(* src/temple_runner_fixed.py).                                            *)
(*                                                                         *)
(* Number representations                                                  *)
(*   - position.y and jump_velocity are IEEE-754 doubles in the program.   *)
(*     Every value they take is an integer multiple of 2^-52 of magnitude  *)
(*     below 1024, so a double is held exactly as three limbs              *)
(*     [i, f1, f0] = i + f1*2^-26 + f0*2^-52 (0 <= f1, f0 < 2^26), and     *)
(*     FAdd rounds the exact sum to 53 significant bits, ties to even, as   *)
(*     the hardware does.                                                   *)
(*   - position.x, position.z, the camera position and the projection are  *)
(*     held in fixed point, 1/1000 of a world unit, products truncated      *)
(*     toward zero.                                                         *)
(*   - distance is held exactly in 1/20 of a unit (velocity in halves      *)
(*     times speed_multiplier in tenths). The program's double sum gives   *)
(*     the same int(distance / 10) on every tick of the first 6000 but     *)
(*     three (1204, 1804 and 3660, where the double lies just below a      *)
(*     multiple of 10 and the program's score is one lower); none of them  *)
(*     is at a multiple of 500, so the difficulty steps are the program's. *)
(*                                                                         *)
(* Which Game is ticked                                                    *)
(*   The entity classes read the module-level name "game" of               *)
(*   temple_runner. A scenario says in its field "instance" whether the    *)
(*   session ticked is that module-level Game ("game": every specification *)
(*   but SpecMain) or the EnhancedGame that main.py creates beside it      *)
(*   ("EnhancedGame": SpecMain).                                           *)
(*                                                                         *)
(* Players and sounds                                                      *)
(*   A Player is a record; an EnhancedPlayer (main.py) is the same record  *)
(*   with the further field footstep_timer. The variable "sounds" counts   *)
(*   the calls of the play_*_sound functions; the sounds are taken to have *)
(*   been imported (SOUND_ENABLED).                                        *)
(***************************************************************************)
EXTENDS Integers, Sequences, FiniteSets, TLC

VARIABLES
    state,                    \* Game.state
    player,                   \* Game.player (a Player or an EnhancedPlayer)
    camera,                   \* Game.camera
    obstacles,                \* Game.obstacles
    collectibles,             \* Game.collectibles
    particles,                \* Game.particles.particles
    score, coins, distance, speed_multiplier, difficulty,
    obstacle_spawn_timer, collectible_spawn_timer,
    high_score,
    file,                     \* high_score.json: <<n>> when it holds n, <<>> when it
                              \* is missing or unreadable
    saves,                    \* history: save_high_score calls made
    running,                  \* the local "running" of Game.run
    sessions,                 \* history: reset_game calls made (bounds the model)
    jumpAge,                  \* history: updates since a jump() from the ground
                              \* that no other player call has followed, else -1
    calls,                    \* history: player calls made (bounds the model)
    last,                     \* history: the operation that made the last step
    picked,                   \* history: items collected in this session, by type
    screen_pos,               \* the value project_3d_to_2d returned last, <<>> before
                              \* the first call that is followed
    sounds                    \* history: calls of the play_*_sound functions of
                              \* main.py made so far, by sound

vars == <<state, player, camera, obstacles, collectibles, particles,
          score, coins, distance, speed_multiplier, difficulty,
          obstacle_spawn_timer, collectible_spawn_timer, high_score, file, saves,
          running, sessions, jumpAge, calls, last, picked, screen_pos, sounds>>

world == <<state, camera, obstacles, collectibles, particles,
           score, coins, distance, speed_multiplier, difficulty,
           obstacle_spawn_timer, collectible_spawn_timer, high_score, file, saves,
           running, sessions, picked, screen_pos, sounds>>

----------------------------------------------------------------------------
(* Doubles as limbs *)

Limb == 2^26

F(i, f1, f0) == [i |-> i, f1 |-> f1, f0 |-> f0]

FZero == F(0, 0, 0)

\* carries propagated: the unique limb form of i + f1/2^26 + f0/2^52
FNorm(i, f1, f0) ==
    LET c0 == f0 \div Limb
        g1 == f1 + c0
        c1 == g1 \div Limb
    IN  F(i + c1, g1 % Limb, f0 % Limb)

FNeg(a) == FNorm(-a.i, -a.f1, -a.f0)

FIsNeg(a) == a.i < 0

FLess(a, b) ==
    \/ a.i < b.i
    \/ a.i = b.i /\ a.f1 < b.f1
    \/ a.i = b.i /\ a.f1 = b.f1 /\ a.f0 < b.f0

FLeq(a, b) == a = b \/ FLess(a, b)

RECURSIVE Pow2Le(_)
\* the largest power of two <= n (n >= 1)
Pow2Le(n) == IF n < 2 THEN 1 ELSE 2 * Pow2Le(n \div 2)

\* a magnitude m >= 0 rounded to 53 significant bits, ties to even
FRoundMag(m) ==
    IF m.i < 2 THEN m
    ELSE LET q == Pow2Le(m.i)
             r == m.f0 % q
             base == m.f0 - r
             up == \/ 2 * r > q
                   \/ 2 * r = q /\ (base \div q) % 2 = 1
         IN  IF r = 0 THEN m
             ELSE FNorm(m.i, m.f1, base + (IF up THEN q ELSE 0))

FRound(v) == IF FIsNeg(v) THEN FNeg(FRoundMag(FNeg(v))) ELSE FRoundMag(v)

\* mutant: the sum is not rounded to a double
FAddExact(a, b) == FNorm(a.i + b.i, a.f1 + b.f1, a.f0 + b.f0)

\* the double a + b
FAdd(a, b) == FRound(FNorm(a.i + b.i, a.f1 + b.f1, a.f0 + b.f0))

\* the double a - b
FSub(a, b) == FAdd(a, FNeg(b))

\* the value in 1/1000, truncated toward zero
FMilliMag(m) == m.i * 1000 + (((m.f1 \div 1024) * 1000) \div 65536)

FMilli(a) == IF FIsNeg(a) THEN -FMilliMag(FNeg(a)) ELSE FMilliMag(a)

----------------------------------------------------------------------------
(* Program constants *)

JumpSpeed == 18
SlideTicks == 30
TurnTicks == 10
LaneWidth == 60
\* the double nearest to 1.2 (0x3FF3333333333333)
Gravity == F(1, 13421772, 53687091)

PlayerStates == {"Running", "Jumping", "Sliding", "TurningLeft", "TurningRight"}

\* a / b truncated toward zero (b > 0), as int() and float products are here
TruncDiv(a, b) == IF a >= 0 THEN a \div b ELSE -((-a) \div b)

----------------------------------------------------------------------------
(* Player *)

\* mutant: a Player is built with forward speed 7.5
NewPlayerSlow ==
    [x |-> 0, y |-> FZero, z |-> 0, vz |-> 7500,
     state |-> "Running", lane |-> 0, jump_velocity |-> FZero,
     slide_timer |-> 0, turn_timer |-> 0, invulnerable_timer |-> 0,
     animation_frame |-> 0, animation_timer |-> 0]

NewPlayer ==
    [x |-> 0, y |-> FZero, z |-> 0, vz |-> 8000,
     state |-> "Running", lane |-> 0, jump_velocity |-> FZero,
     slide_timer |-> 0, turn_timer |-> 0, invulnerable_timer |-> 0,
     animation_frame |-> 0, animation_timer |-> 0]

\* mutant: gravity is applied before the position is advanced
UpdateJumpGravityFirst(p) ==
    IF p.state # "Jumping" THEN p
    ELSE LET v1 == FSub(p.jump_velocity, Gravity)
             y1 == FAdd(p.y, v1)
         IN  IF FLeq(y1, FZero)
             THEN [p EXCEPT !.y = FZero, !.jump_velocity = FZero, !.state = "Running"]
             ELSE [p EXCEPT !.y = y1, !.jump_velocity = v1]

\* Player.update, the jump block
UpdateJump(p) ==
    IF p.state # "Jumping" THEN p
    ELSE LET y1 == FAdd(p.y, p.jump_velocity)
             v1 == FSub(p.jump_velocity, Gravity)
         IN  IF FLeq(y1, FZero)
             THEN [p EXCEPT !.y = FZero, !.jump_velocity = FZero, !.state = "Running"]
             ELSE [p EXCEPT !.y = y1, !.jump_velocity = v1]

\* mutant: the slide ends when the timer has gone below 0
UpdateSlideLate(p) ==
    IF p.state # "Sliding" THEN p
    ELSE LET t == p.slide_timer - 1
         IN  [p EXCEPT !.slide_timer = t,
                       !.state = IF t < 0 THEN "Running" ELSE "Sliding"]

\* Player.update, the slide block
UpdateSlide(p) ==
    IF p.state # "Sliding" THEN p
    ELSE LET t == p.slide_timer - 1
         IN  [p EXCEPT !.slide_timer = t,
                       !.state = IF t <= 0 THEN "Running" ELSE "Sliding"]

\* Player.update, the turn block
UpdateTurn(p) ==
    IF p.state \notin {"TurningLeft", "TurningRight"} THEN p
    ELSE LET t == p.turn_timer - 1
         IN  [p EXCEPT !.turn_timer = t,
                       !.state = IF t <= 0 THEN "Running" ELSE p.state]

\* Player.update, lane movement, the invulnerability timer and the animation
UpdateRest(p) ==
    LET target_x == p.lane * LaneWidth * 1000
        t1 == p.animation_timer + 1
    IN  [p EXCEPT !.x = p.x + TruncDiv((target_x - p.x) * 2, 10),
                  !.invulnerable_timer =
                      IF p.invulnerable_timer > 0 THEN p.invulnerable_timer - 1
                      ELSE p.invulnerable_timer,
                  !.animation_timer = IF t1 >= 10 THEN 0 ELSE t1,
                  !.animation_frame =
                      IF t1 >= 10 THEN (p.animation_frame + 1) % 4
                      ELSE p.animation_frame]

PlayerUpdate(p) ==
    UpdateRest(UpdateTurn(UpdateSlide(UpdateJump([p EXCEPT !.z = p.z + p.vz]))))

Jump(p) ==
    IF p.state = "Running"
    THEN [p EXCEPT !.state = "Jumping", !.jump_velocity = F(JumpSpeed, 0, 0)]
    ELSE p

\* mutant: slide() without its state guard
SlideUnguarded(p) == [p EXCEPT !.state = "Sliding", !.slide_timer = SlideTicks]

Slide(p) ==
    IF p.state = "Running"
    THEN [p EXCEPT !.state = "Sliding", !.slide_timer = SlideTicks]
    ELSE p

\* mutant: move_left() without its lane guard
MoveLeftUnguarded(p) ==
    [p EXCEPT !.lane = p.lane - 1, !.state = "TurningLeft", !.turn_timer = TurnTicks]

MoveLeft(p) ==
    IF p.lane > -1
    THEN [p EXCEPT !.lane = p.lane - 1, !.state = "TurningLeft", !.turn_timer = TurnTicks]
    ELSE p

MoveRight(p) ==
    IF p.lane < 1
    THEN [p EXCEPT !.lane = p.lane + 1, !.state = "TurningRight", !.turn_timer = TurnTicks]
    ELSE p

\* main.py: the sound effects were imported
SOUND_ENABLED == TRUE

\* EnhancedPlayer.__init__ (main.py): a Player with a footstep_timer
NewEnhancedPlayer ==
    [x |-> 0, y |-> FZero, z |-> 0, vz |-> 8000,
     state |-> "Running", lane |-> 0, jump_velocity |-> FZero,
     slide_timer |-> 0, turn_timer |-> 0, invulnerable_timer |-> 0,
     animation_frame |-> 0, animation_timer |-> 0, footstep_timer |-> 0]

\* the object p is an EnhancedPlayer
IsEnhanced(p) == "footstep_timer" \in DOMAIN p

\* EnhancedPlayer.update after super().update(): the footstep block, which
\* the update of a plain Player does not have
UpdateFootsteps(q) ==
    IF IsEnhanced(q) /\ q.state = "Running" /\ SOUND_ENABLED
    THEN [q EXCEPT !.footstep_timer = IF @ - 1 <= 0 THEN 20 ELSE @ - 1]
    ELSE q

\* the play_footstep_sound calls of one update() of the object p
Footsteps(p) ==
    IF IsEnhanced(p) /\ SOUND_ENABLED
          /\ PlayerUpdate(p).state = "Running" /\ p.footstep_timer - 1 <= 0
    THEN 1 ELSE 0

\* the play_jump_sound calls of one jump() of the object p, and the
\* play_slide_sound calls of one slide(): both overrides test the state first
KeySounds(p) ==
    IF IsEnhanced(p) /\ SOUND_ENABLED /\ p.state = "Running" THEN 1 ELSE 0

\* update() of the object p, by its class
UpdateOf(p) == UpdateFootsteps(PlayerUpdate(p))

----------------------------------------------------------------------------
(* Camera, projection and collision footprints *)

ScreenWidth == 1200
ScreenHeight == 800
Fov == 500

\* Camera.update; jx, jy are the two random.uniform draws of the shake
CameraUpdate(cam, p, jx, jy) ==
    LET target_x == TruncDiv(p.x * 3, 10)
        target_z == p.z - 200000
        x1 == cam.x + TruncDiv(target_x - cam.x, 10)
        z1 == cam.z + TruncDiv(target_z - cam.z, 10)
    IN  IF cam.shake_duration > 0
        THEN [cam EXCEPT !.x = x1 + jx, !.y = cam.y + jy, !.z = z1,
                         !.shake_duration = cam.shake_duration - 1]
        ELSE [cam EXCEPT !.x = x1, !.z = z1]

\* mutant: add_shake is not reached
AddShakeSkipped(cam, intensity, duration) == cam

AddShake(cam, intensity, duration) ==
    [cam EXCEPT !.shake_intensity = intensity, !.shake_duration = duration]

\* mutant: only a relative z of exactly 0 is replaced by 0.1
ProjectZeroOnly(cam, x, y, z) ==
    LET rel_x == x - cam.x
        rel_y == y - cam.y
        rz == z - cam.z
        rel_z == IF rz = 0 THEN 100 ELSE rz
    IN  << TruncDiv(rel_x * Fov + (ScreenWidth \div 2) * rel_z, rel_z),
           TruncDiv(rel_y * Fov + (ScreenHeight \div 2) * rel_z, rel_z) >>

\* Camera.project_3d_to_2d: <<screen_x, screen_y>>, each int(rel * fov / rel_z + centre)
Project(cam, x, y, z) ==
    LET rel_x == x - cam.x
        rel_y == y - cam.y
        rz == z - cam.z
        rel_z == IF rz <= 0 THEN 100 ELSE rz
    IN  << TruncDiv(rel_x * Fov + (ScreenWidth \div 2) * rel_z, rel_z),
           TruncDiv(rel_y * Fov + (ScreenHeight \div 2) * rel_z, rel_z) >>

Rect(left, top, w, h) == [left |-> left, top |-> top, w |-> w, h |-> h]

\* pygame.Rect.colliderect
CollideRect(a, b) ==
    /\ a.left < b.left + b.w /\ b.left < a.left + a.w
    /\ a.top < b.top + b.h /\ b.top < a.top + a.h

PlayerSize == 20
ObstacleSize == 30
CollectibleSize == 15

\* Player.get_collision_rect
PlayerRect(p, cam) ==
    LET sp == Project(cam, p.x, FMilli(p.y), p.z)
    IN  IF p.state = "Sliding"
        THEN Rect(sp[1] - PlayerSize \div 2, sp[2] - PlayerSize \div 4,
                  PlayerSize, PlayerSize \div 2)
        ELSE Rect(sp[1] - PlayerSize \div 2, sp[2] - PlayerSize,
                  PlayerSize, PlayerSize * 2)

\* Obstacle.get_collision_rect, Collectible.get_collision_rect
EntityRect(e, cam, size) ==
    LET sp == Project(cam, e.x, e.y, e.z)
    IN  Rect(sp[1] - size \div 2, sp[2] - size \div 2, size, size)

----------------------------------------------------------------------------
(* Entities *)

ObstacleTypes == {"barrier", "gap", "boulder", "moving_barrier", "spike_trap"}
CollectibleTypes == {"coin", "gem", "powerup"}

Obstacle(x, z, type, lane) ==
    [x |-> x, y |-> 0, z |-> z, type |-> type, lane |-> lane, active |-> TRUE]

Collectible(x, y, z, type) ==
    [x |-> x, y |-> y, z |-> z, type |-> type, active |-> TRUE, rotation |-> 0]

\* Obstacle.update
ObstacleUpdate(o, pz) == IF o.z < pz - 300000 THEN [o EXCEPT !.active = FALSE] ELSE o

\* Collectible.update
CollectibleUpdate(c, pz) ==
    [c EXCEPT !.rotation = c.rotation + 5,
              !.active = IF c.z < pz - 100000 THEN FALSE ELSE c.active]

IsActive(e) == e.active

\* update_game: "for obstacle in self.obstacles[:]: update; remove if not active"
UpdateObstacles(obs, pz) ==
    SelectSeq([i \in DOMAIN obs |-> ObstacleUpdate(obs[i], pz)], IsActive)

UpdateCollectibles(cs, pz) ==
    SelectSeq([i \in DOMAIN cs |-> CollectibleUpdate(cs[i], pz)], IsActive)

\* ParticleSystem.add_particle, n times (one burst, all with the drawn velocity v)
Burst(n, x, y, z, v, color, life) ==
    [i \in 1..n |-> [x |-> x, y |-> y, z |-> z, vx |-> v[1], vy |-> v[2], vz |-> v[3],
                     color |-> color, life |-> life, max_life |-> life]]

IsAlive(q) == q.life > 0

\* ParticleSystem.update
ParticlesUpdate(ps) ==
    SelectSeq([i \in DOMAIN ps |->
              [ps[i] EXCEPT !.x = ps[i].x + ps[i].vx, !.y = ps[i].y + ps[i].vy,
                            !.z = ps[i].z + ps[i].vz, !.life = ps[i].life - 1]],
           IsAlive)

----------------------------------------------------------------------------
(* The state after Game.__init__ *)

NewCamera == [x |-> 0, y |-> -50000, z |-> -200000,
              shake_intensity |-> 0, shake_duration |-> 0]

NoPicks == [coin |-> 0, gem |-> 0, powerup |-> 0]

NoSounds == [jump |-> 0, slide |-> 0, coin |-> 0, gem |-> 0, powerup |-> 0,
             collision |-> 0, footstep |-> 0]

Init ==
    /\ state = "Menu"
    /\ player = NewPlayer
    /\ camera = NewCamera
    /\ obstacles = <<>>
    /\ collectibles = <<>>
    /\ particles = <<>>
    /\ score = 0 /\ coins = 0 /\ distance = 0
    /\ speed_multiplier = 10 /\ difficulty = 1
    /\ obstacle_spawn_timer = 0 /\ collectible_spawn_timer = 0
    /\ high_score = 0
    /\ file = <<>>
    /\ saves = 0
    /\ running = TRUE
    /\ sessions = 0
    /\ jumpAge = -1
    /\ calls = 0
    /\ last = "init"
    /\ picked = NoPicks
    /\ screen_pos = <<>>
    /\ sounds = NoSounds

----------------------------------------------------------------------------
(* game_logic.py: spawning, collisions, collecting, game over *)

\* mutant: every type is drawn at every difficulty
ObstacleTypesUngated(d) ==
    {"barrier", "gap", "boulder", "moving_barrier", "spike_trap"}

\* spawn_obstacle: the types random.choice draws from at difficulty d
ObstacleTypesAt(d) ==
    {"barrier", "gap", "boulder"}
        \cup (IF d >= 3 THEN {"moving_barrier"} ELSE {})
        \cup (IF d >= 5 THEN {"spike_trap"} ELSE {})

\* mutant: a multi-lane spawn has no safe lane
SpawnObstacleAllLanes(pz, off, type, multi, lane) ==
    LET spawn_z == pz + (400 + off) * 1000
        mk(l) == Obstacle(l * LaneWidth * 1000, spawn_z, type, l)
    IN  IF multi THEN <<mk(-1), mk(0), mk(1)>> ELSE <<mk(lane)>>

\* spawn_obstacle with its draws: off = randint(0, 200), type, multi = the
\* "random() < 0.3" branch, lane = the safe lane (multi) or the lane (single)
SpawnObstacle(pz, off, type, multi, lane) ==
    LET spawn_z == pz + (400 + off) * 1000
        mk(l) == Obstacle(l * LaneWidth * 1000, spawn_z, type, l)
    IN  IF multi
        THEN SelectSeq(<<mk(-1), mk(0), mk(1)>>, LAMBDA o : o.lane # lane)
        ELSE <<mk(lane)>>

\* spawn_collectible with its draws: off = randint(0, 150), type, line = the
\* "random() < 0.4" branch, lane
SpawnCollectible(pz, off, type, line, lane) ==
    LET spawn_z == pz + (300 + off) * 1000
    IN  IF line
        THEN [i \in 1..3 |-> Collectible(0, 10000, spawn_z + (i - 1) * 30000, "coin")]
        ELSE <<Collectible(lane * LaneWidth * 1000,
                           IF type = "coin" THEN 10000 ELSE 20000, spawn_z, type)>>

\* mutant: the difficulty is not scaled by 5
ObstacleIntervalUnscaled(d) == IF 90 - d > 30 THEN 90 - d ELSE 30

\* update_game: max(30, 90 - difficulty * 5)
ObstacleInterval(d) == IF 90 - d * 5 > 30 THEN 90 - d * 5 ELSE 30

\* mutant: the difficulty has no cap
DifficultyStepUncapped(sc, d) == sc > 0 /\ sc % 500 = 0

\* update_game: the difficulty is raised on this tick
DifficultyStep(sc, d) == sc > 0 /\ sc % 500 = 0 /\ d < 10

\* mutant: a boulder can be jumped
CanAvoidBoulder(type, pstate) ==
    \/ type = "barrier" /\ pstate = "Sliding"
    \/ type \in {"gap", "boulder"} /\ pstate = "Jumping"

\* check_collisions: can_avoid
CanAvoid(type, pstate) ==
    \/ type = "barrier" /\ pstate = "Sliding"
    \/ type = "gap" /\ pstate = "Jumping"

\* mutant: the obstacle loop does not look at the invulnerability timer
FatalIgnoringTimer(p, cam, obs) ==
    \E i \in DOMAIN obs :
        /\ obs[i].active
        /\ obs[i].lane = p.lane
        /\ CollideRect(PlayerRect(p, cam), EntityRect(obs[i], cam, ObstacleSize))
        /\ ~CanAvoid(obs[i].type, p.state)

\* mutant: the lane of the player is taken from position.x, the lane whose
\* middle is nearest
FatalByPosition(p, cam, obs) ==
    \E i \in DOMAIN obs :
        /\ obs[i].active
        /\ obs[i].lane * LaneWidth * 1000 - p.x < LaneWidth * 500
        /\ p.x - obs[i].lane * LaneWidth * 1000 < LaneWidth * 500
        /\ CollideRect(PlayerRect(p, cam), EntityRect(obs[i], cam, ObstacleSize))
        /\ p.invulnerable_timer <= 0
        /\ ~CanAvoid(obs[i].type, p.state)

\* check_collisions, the obstacle loop: some obstacle reaches game_over()
Fatal(p, cam, obs) ==
    \E i \in DOMAIN obs :
        /\ obs[i].active
        /\ obs[i].lane = p.lane
        /\ CollideRect(PlayerRect(p, cam), EntityRect(obs[i], cam, ObstacleSize))
        /\ p.invulnerable_timer <= 0
        /\ ~CanAvoid(obs[i].type, p.state)

\* mutant: a gem is counted as one coin
CollectItemGemAsCoin(g, c, v) ==
    LET n == IF c.type = "coin" THEN 5 ELSE IF c.type = "gem" THEN 8 ELSE 10
        color == IF c.type = "coin" THEN "GOLD" ELSE IF c.type = "gem" THEN "BLUE" ELSE "RED"
        life == IF c.type = "coin" THEN 30 ELSE IF c.type = "gem" THEN 40 ELSE 50
    IN  [g EXCEPT
           !.coins = @ + (IF c.type \in {"coin", "gem"} THEN 1 ELSE 0),
           !.score = @ + (IF c.type = "coin" THEN 10 ELSE IF c.type = "gem" THEN 50 ELSE 100),
           !.inv = IF c.type = "powerup" THEN 180 ELSE @,
           !.particles = @ \o Burst(n, c.x, c.y, c.z, v, color, life),
           !.picked = [@ EXCEPT ![c.type] = @ + 1]]

\* collect_item on the running totals g; v is the drawn particle velocity
CollectItem(g, c, v) ==
    LET n == IF c.type = "coin" THEN 5 ELSE IF c.type = "gem" THEN 8 ELSE 10
        color == IF c.type = "coin" THEN "GOLD" ELSE IF c.type = "gem" THEN "BLUE" ELSE "RED"
        life == IF c.type = "coin" THEN 30 ELSE IF c.type = "gem" THEN 40 ELSE 50
    IN  [g EXCEPT
           !.coins = @ + (IF c.type = "coin" THEN 1 ELSE IF c.type = "gem" THEN 5 ELSE 0),
           !.score = @ + (IF c.type = "coin" THEN 10 ELSE IF c.type = "gem" THEN 50 ELSE 100),
           !.inv = IF c.type = "powerup" THEN 180 ELSE @,
           !.particles = @ \o Burst(n, c.x, c.y, c.z, v, color, life),
           !.picked = [@ EXCEPT ![c.type] = @ + 1]]

\* mutant: a collected item stays in the list
RECURSIVE CollectKeepsItem(_, _, _, _, _)
CollectKeepsItem(cs, rect, cam, v, g) ==
    IF cs = <<>> THEN g
    ELSE LET c == Head(cs)
             hit == c.active /\ CollideRect(rect, EntityRect(c, cam, CollectibleSize))
         IN  CollectKeepsItem(Tail(cs), rect, cam, v,
                     [(IF hit THEN CollectItem(g, c, v) ELSE g)
                         EXCEPT !.kept = Append(@, c)])

\* check_collisions, the collectible loop over the list cs
RECURSIVE Collect(_, _, _, _, _)
Collect(cs, rect, cam, v, g) ==
    IF cs = <<>> THEN g
    ELSE LET c == Head(cs)
             hit == c.active /\ CollideRect(rect, EntityRect(c, cam, CollectibleSize))
         IN  Collect(Tail(cs), rect, cam, v,
                     IF hit THEN CollectItem(g, c, v)
                     ELSE [g EXCEPT !.kept = Append(@, c)])

\* mutant: reset_game keeps the score
ResetGameKeepsScore ==
    /\ player' = NewPlayer
    /\ camera' = NewCamera
    /\ obstacles' = <<>>
    /\ collectibles' = <<>>
    /\ particles' = <<>>
    /\ score' = score /\ coins' = 0 /\ distance' = 0
    /\ speed_multiplier' = 10 /\ difficulty' = 1
    /\ obstacle_spawn_timer' = 0 /\ collectible_spawn_timer' = 0

\* Game.load_high_score: the stored value, 0 when the file cannot be read
LoadHighScore(f) == IF f = <<>> THEN 0 ELSE f[1]

\* Game.save_high_score(hs) on file f: written ("ok"), not opened ("denied":
\* the file stays as it was) or opened and not written ("torn": the file is
\* left unreadable); the exception is swallowed
SaveHighScore(f, hs, out) ==
    IF out = "ok" THEN <<hs>> ELSE IF out = "denied" THEN f ELSE <<>>

\* mutant: a tie counts as a new record
NewRecordOrTie(sc, hs) == sc >= hs

\* game_over: "if self.score > self.high_score"
NewRecord(sc, hs) == sc > hs

\* mutant: reset_game keeps the camera and the particles
ResetGameKeepsCamera ==
    /\ player' = NewPlayer
    /\ camera' = camera
    /\ obstacles' = <<>>
    /\ collectibles' = <<>>
    /\ particles' = particles
    /\ score' = 0 /\ coins' = 0 /\ distance' = 0
    /\ speed_multiplier' = 10 /\ difficulty' = 1
    /\ obstacle_spawn_timer' = 0 /\ collectible_spawn_timer' = 0

\* Game.reset_game
ResetGame ==
    /\ player' = NewPlayer
    /\ camera' = NewCamera
    /\ obstacles' = <<>>
    /\ collectibles' = <<>>
    /\ particles' = <<>>
    /\ score' = 0 /\ coins' = 0 /\ distance' = 0
    /\ speed_multiplier' = 10 /\ difficulty' = 1
    /\ obstacle_spawn_timer' = 0 /\ collectible_spawn_timer' = 0

----------------------------------------------------------------------------
(* A Player driven directly, as src/test_game.py and src/demo.py drive it *)

MaxPlayerTicks == 34
MaxCalls == 3

\* the history of the jump in progress after one update
AgeAfterUpdate(p) ==
    IF jumpAge >= 0 /\ p.state = "Jumping" THEN jumpAge + 1 ELSE -1

CallUpdate ==
    /\ player.z < MaxPlayerTicks * player.vz
    /\ player' = PlayerUpdate(player)
    /\ jumpAge' = AgeAfterUpdate(player)
    /\ last' = "update"
    /\ UNCHANGED <<world, calls>>

CallJump ==
    /\ calls < MaxCalls
    /\ calls' = calls + 1
    /\ last' = "jump"
    /\ player' = Jump(player)
    /\ jumpAge' = IF player.state = "Running" /\ player.y = FZero THEN 0 ELSE -1
    /\ UNCHANGED world

CallSlide ==
    /\ calls < MaxCalls
    /\ calls' = calls + 1
    /\ last' = "slide"
    /\ player' = Slide(player)
    /\ jumpAge' = -1
    /\ UNCHANGED world

CallMoveLeft ==
    /\ calls < MaxCalls
    /\ calls' = calls + 1
    /\ last' = "move_left"
    /\ player' = MoveLeft(player)
    /\ jumpAge' = -1
    /\ UNCHANGED world

CallMoveRight ==
    /\ calls < MaxCalls
    /\ calls' = calls + 1
    /\ last' = "move_right"
    /\ player' = MoveRight(player)
    /\ jumpAge' = -1
    /\ UNCHANGED world

NextPlayer == CallUpdate \/ CallJump \/ CallSlide \/ CallMoveLeft \/ CallMoveRight

SpecPlayer == Init /\ [][NextPlayer]_vars

----------------------------------------------------------------------------
(* Properties of the Player (SpecPlayer) *)

Lanes == {-1, 0, 1}

\* C7: under any sequence of move_left, move_right, jump, slide and update
\* calls the lane stays in {-1, 0, 1}, and move_left at lane -1 and move_right
\* at lane +1 change no field of the player (lane, state, turn_timer included).
C7_LaneBounds ==
    /\ [](player.lane \in Lanes)
    /\ [][ /\ (last' = "move_left" /\ player.lane = -1 => player' = player)
           /\ (last' = "move_right" /\ player.lane = 1 => player' = player) ]_vars

\* a move_left was called at the left bound, after a first one took effect
C7_Witness ==
    last = "move_left" /\ calls = 2 /\ player.lane = -1 /\ player.turn_timer < TurnTicks

\* C8 (amended): after jump() from Running on the ground with no other call, the
\* player is Jumping with position.y > 0 after each of the first 31 updates and
\* is Running with position.y = 0 after the 32nd, the update in which
\* position.y first reaches <= 0.
C8_JumpLands ==
    jumpAge >= 0 =>
        /\ jumpAge <= 32
        /\ jumpAge < 32 => player.state = "Jumping"
        /\ (jumpAge > 0 /\ jumpAge < 32) => FLess(FZero, player.y)
        /\ jumpAge = 32 => player.state = "Running" /\ player.y = FZero

C8_Witness == jumpAge = 32 /\ player.state = "Running" /\ player.y = FZero

\* C8 as stated: the jump is over after 31 updates.
C8_Original ==
    jumpAge >= 0 =>
        /\ jumpAge <= 31
        /\ jumpAge < 31 => player.state = "Jumping"
        /\ jumpAge = 31 => player.state = "Running" /\ player.y = FZero

\* C9 (amended): during a jump from the ground with no other call, position.y
\* strictly increases in each of the first 15 updates, is unchanged by the 16th
\* (the apex is held for two consecutive ticks) and strictly decreases in every
\* later update of the jump, the landing included.
C9_SingleApex ==
    [][ (jumpAge >= 0 /\ jumpAge' = jumpAge + 1) =>
           /\ jumpAge < 15 => FLess(player.y, player'.y)
           /\ jumpAge = 15 => player'.y = player.y
           /\ jumpAge > 15 => FLess(player'.y, player.y) ]_vars

C9_Witness == jumpAge = 16 /\ player.state = "Jumping" /\ player.y.i = 144

\* C9 as stated: no two consecutive ticks of the jump have the same position.y.
C9_Original ==
    [][ (jumpAge >= 0 /\ jumpAge' = jumpAge + 1) => player'.y # player.y ]_vars

\* C10: jump() and slide() called in a player state other than Running leave
\* every field of the player unchanged.
C10_NoOps ==
    [][ (last' \in {"jump", "slide"} /\ player.state # "Running") =>
            player' = player ]_vars

\* a jump() or slide() was called on a player that had just started sliding
C10_Witness ==
    /\ last \in {"jump", "slide"} /\ calls = 2
    /\ player.state = "Sliding" /\ player.slide_timer = SlideTicks

----------------------------------------------------------------------------
(* The game session: Game.run's event handling and Game.update.            *)
(* A scenario c fixes the sets the random draws are taken from and how far *)
(* a run is followed.                                                      *)

\* the draws of random.uniform(-shake_intensity, shake_intensity)
Jitter(cam) ==
    IF cam.shake_duration > 0
    THEN {-cam.shake_intensity * 1000, 0, cam.shake_intensity * 1000}
    ELSE {0}

\* the outcomes of spawn_obstacle at difficulty d
ObSpawns(c, d, pz) ==
    { SpawnObstacle(pz, off, t, m, l) :
        off \in c.obOffs,
        t \in ObstacleTypesAt(d) \cap c.obTypes[d],
        m \in (IF d >= 4 THEN c.obMulti[d] ELSE {FALSE}),
        l \in c.obLanes[d] }

\* the outcomes of spawn_collectible
CoSpawns(c, pz) ==
    { SpawnCollectible(pz, c.coOff, k[1], k[2], k[3]) : k \in c.coKinds }

\* KEYDOWN in state MENU, K_SPACE
Start(c) ==
    /\ running /\ state = "Menu"
    /\ sessions < c.maxSessions
    /\ ResetGame
    /\ state' = "Playing"
    /\ sessions' = sessions + 1
    /\ picked' = NoPicks
    /\ jumpAge' = -1
    /\ last' = "start"
    /\ UNCHANGED <<high_score, file, saves, running, calls, screen_pos, sounds>>

\* Obstacle.update, Collectible.update and the three get_collision_rect read
\* the module-level name "game" of temple_runner (bound to the Game() built
\* when the module is imported), not the instance that is ticked. In a scenario
\* of instance "game" the session ticked is that instance; in a scenario of
\* instance "EnhancedGame" it is the one main() creates, and "game" keeps the
\* player and camera of its construction, since nothing ever ticks it.
GlobalPlayerZ(c, p) == IF c.instance = "game" THEN p.z ELSE NewPlayer.z

GlobalCamera(c, cam) == IF c.instance = "game" THEN cam ELSE NewCamera

\* the play_*_sound calls of one frame, added to the calls made so far: the
\* footsteps of the update of player p and, in the EnhancedGame of main.py,
\* the sound of game_over (dead) or one sound for each item collected (the
\* counts of items collected go from was to now)
FrameSounds(c, p, dead, was, now) ==
    LET on == c.instance = "EnhancedGame" /\ SOUND_ENABLED
    IN  [sounds EXCEPT
           !.footstep = @ + Footsteps(p),
           !.collision = @ + (IF on /\ dead THEN 1 ELSE 0),
           !.coin = @ + (IF on /\ ~dead THEN now.coin - was.coin ELSE 0),
           !.gem = @ + (IF on /\ ~dead THEN now.gem - was.gem ELSE 0),
           !.powerup = @ + (IF on /\ ~dead THEN now.powerup - was.powerup ELSE 0)]

\* mutant: the difficulty step runs before the distance and score are
\* recomputed, so it reads the score of the frame before
TickStepFirst(c) ==
    /\ running /\ state = "Playing"
    /\ player.z < c.maxZ
    /\ LET p1 == UpdateOf(player)
           dist1 == distance + (p1.vz \div 500) * speed_multiplier
           sc1 == dist1 \div 200
           step == DifficultyStep(score, difficulty)
           d1 == IF step THEN difficulty + 1 ELSE difficulty
           p2 == IF step THEN [p1 EXCEPT !.vz = @ + 500] ELSE p1
           ot == obstacle_spawn_timer - 1
           ct == collectible_spawn_timer - 1
       IN  \E jx \in Jitter(camera), jy \in Jitter(camera), v \in c.vels,
              newObs \in (IF ot <= 0 THEN ObSpawns(c, d1, p2.z) ELSE {<<>>}),
              newCs \in (IF ct <= 0 THEN CoSpawns(c, p2.z) ELSE {<<>>}),
              ctNext \in (IF ct <= 0 THEN c.coTimers ELSE {ct}) :
             LET cam1 == CameraUpdate(camera, p1, jx, jy)
                 obs1 == UpdateObstacles(obstacles \o newObs, GlobalPlayerZ(c, p2))
                 cs1 == UpdateCollectibles(collectibles \o newCs, GlobalPlayerZ(c, p2))
                 ps1 == ParticlesUpdate(particles)
                 view == GlobalCamera(c, cam1)
                 dead == Fatal(p2, view, obs1)
                 got == Collect(cs1, PlayerRect(p2, view), view, v,
                                [score |-> sc1, coins |-> coins,
                                 inv |-> p2.invulnerable_timer, particles |-> ps1,
                                 kept |-> <<>>, picked |-> picked])
                 pos == <<p2.x, FMilli(p2.y), p2.z>>
             IN  /\ distance' = dist1
                 /\ difficulty' = d1
                 /\ speed_multiplier' = IF step THEN speed_multiplier + 1
                                        ELSE speed_multiplier
                 /\ obstacle_spawn_timer' = IF ot <= 0 THEN ObstacleInterval(d1) ELSE ot
                 /\ collectible_spawn_timer' = ctNext
                 /\ obstacles' = obs1
                 /\ sounds' = FrameSounds(c, player, dead, picked, got.picked)
                 /\ IF dead
                    THEN \* game_over()
                         /\ state' = "GameOver"
                         /\ score' = sc1
                         /\ high_score' = IF NewRecord(sc1, high_score) THEN sc1
                                          ELSE high_score
                         /\ saves' = IF NewRecord(sc1, high_score) THEN saves + 1
                                     ELSE saves
                         /\ \E out \in c.saveOutcomes :
                               file' = IF NewRecord(sc1, high_score)
                                       THEN SaveHighScore(file, sc1, out) ELSE file
                         /\ camera' = AddShake(cam1, 10, 30)
                         /\ particles' =
                                ps1 \o Burst(20, pos[1], pos[2], pos[3], v, "RED", 60)
                         /\ player' = p2
                         /\ collectibles' = cs1
                         /\ UNCHANGED <<coins, picked>>
                    ELSE /\ state' = "Playing"
                         /\ score' = got.score
                         /\ coins' = got.coins
                         /\ player' = [p2 EXCEPT !.invulnerable_timer = got.inv]
                         /\ particles' = got.particles
                         /\ collectibles' = got.kept
                         /\ picked' = got.picked
                         /\ camera' = cam1
                         /\ UNCHANGED <<high_score, file, saves>>
    /\ jumpAge' = AgeAfterUpdate(player)
    /\ last' = "tick"
    /\ UNCHANGED <<running, sessions, calls, screen_pos>>

\* mutant: after a fatal hit the collectible loop of check_collisions still
\* runs, before game_over()
TickCollectsAfterHit(c) ==
    /\ running /\ state = "Playing"
    /\ player.z < c.maxZ
    /\ LET p1 == UpdateOf(player)
           dist1 == distance + (p1.vz \div 500) * speed_multiplier
           sc1 == dist1 \div 200
           step == DifficultyStep(sc1, difficulty)
           d1 == IF step THEN difficulty + 1 ELSE difficulty
           p2 == IF step THEN [p1 EXCEPT !.vz = @ + 500] ELSE p1
           ot == obstacle_spawn_timer - 1
           ct == collectible_spawn_timer - 1
       IN  \E jx \in Jitter(camera), jy \in Jitter(camera), v \in c.vels,
              newObs \in (IF ot <= 0 THEN ObSpawns(c, d1, p2.z) ELSE {<<>>}),
              newCs \in (IF ct <= 0 THEN CoSpawns(c, p2.z) ELSE {<<>>}),
              ctNext \in (IF ct <= 0 THEN c.coTimers ELSE {ct}) :
             LET cam1 == CameraUpdate(camera, p1, jx, jy)
                 obs1 == UpdateObstacles(obstacles \o newObs, GlobalPlayerZ(c, p2))
                 cs1 == UpdateCollectibles(collectibles \o newCs, GlobalPlayerZ(c, p2))
                 ps1 == ParticlesUpdate(particles)
                 view == GlobalCamera(c, cam1)
                 dead == Fatal(p2, view, obs1)
                 got == Collect(cs1, PlayerRect(p2, view), view, v,
                                [score |-> sc1, coins |-> coins,
                                 inv |-> p2.invulnerable_timer, particles |-> ps1,
                                 kept |-> <<>>, picked |-> picked])
                 pos == <<p2.x, FMilli(p2.y), p2.z>>
             IN  /\ distance' = dist1
                 /\ difficulty' = d1
                 /\ speed_multiplier' = IF step THEN speed_multiplier + 1
                                        ELSE speed_multiplier
                 /\ obstacle_spawn_timer' = IF ot <= 0 THEN ObstacleInterval(d1) ELSE ot
                 /\ collectible_spawn_timer' = ctNext
                 /\ obstacles' = obs1
                 /\ sounds' = FrameSounds(c, player, dead, picked, got.picked)
                 /\ IF dead
                    THEN \* game_over()
                         /\ state' = "GameOver"
                         /\ score' = got.score
                         /\ high_score' = IF NewRecord(got.score, high_score) THEN got.score
                                          ELSE high_score
                         /\ saves' = IF NewRecord(got.score, high_score) THEN saves + 1
                                     ELSE saves
                         /\ \E out \in c.saveOutcomes :
                               file' = IF NewRecord(got.score, high_score)
                                       THEN SaveHighScore(file, got.score, out) ELSE file
                         /\ camera' = AddShake(cam1, 10, 30)
                         /\ particles' =
                                got.particles
                                  \o Burst(20, pos[1], pos[2], pos[3], v, "RED", 60)
                         /\ player' = [p2 EXCEPT !.invulnerable_timer = got.inv]
                         /\ collectibles' = got.kept
                         /\ coins' = got.coins
                         /\ picked' = got.picked
                    ELSE /\ state' = "Playing"
                         /\ score' = got.score
                         /\ coins' = got.coins
                         /\ player' = [p2 EXCEPT !.invulnerable_timer = got.inv]
                         /\ particles' = got.particles
                         /\ collectibles' = got.kept
                         /\ picked' = got.picked
                         /\ camera' = cam1
                         /\ UNCHANGED <<high_score, file, saves>>
    /\ jumpAge' = AgeAfterUpdate(player)
    /\ last' = "tick"
    /\ UNCHANGED <<running, sessions, calls, screen_pos>>

\* mutant: the score is not recomputed from the distance; the points of
\* the distance gained on the frame are added to it
TickKeepsBonus(c) ==
    /\ running /\ state = "Playing"
    /\ player.z < c.maxZ
    /\ LET p1 == UpdateOf(player)
           dist1 == distance + (p1.vz \div 500) * speed_multiplier
           sc1 == score + (dist1 \div 200 - distance \div 200)
           step == DifficultyStep(sc1, difficulty)
           d1 == IF step THEN difficulty + 1 ELSE difficulty
           p2 == IF step THEN [p1 EXCEPT !.vz = @ + 500] ELSE p1
           ot == obstacle_spawn_timer - 1
           ct == collectible_spawn_timer - 1
       IN  \E jx \in Jitter(camera), jy \in Jitter(camera), v \in c.vels,
              newObs \in (IF ot <= 0 THEN ObSpawns(c, d1, p2.z) ELSE {<<>>}),
              newCs \in (IF ct <= 0 THEN CoSpawns(c, p2.z) ELSE {<<>>}),
              ctNext \in (IF ct <= 0 THEN c.coTimers ELSE {ct}) :
             LET cam1 == CameraUpdate(camera, p1, jx, jy)
                 obs1 == UpdateObstacles(obstacles \o newObs, GlobalPlayerZ(c, p2))
                 cs1 == UpdateCollectibles(collectibles \o newCs, GlobalPlayerZ(c, p2))
                 ps1 == ParticlesUpdate(particles)
                 view == GlobalCamera(c, cam1)
                 dead == Fatal(p2, view, obs1)
                 got == Collect(cs1, PlayerRect(p2, view), view, v,
                                [score |-> sc1, coins |-> coins,
                                 inv |-> p2.invulnerable_timer, particles |-> ps1,
                                 kept |-> <<>>, picked |-> picked])
                 pos == <<p2.x, FMilli(p2.y), p2.z>>
             IN  /\ distance' = dist1
                 /\ difficulty' = d1
                 /\ speed_multiplier' = IF step THEN speed_multiplier + 1
                                        ELSE speed_multiplier
                 /\ obstacle_spawn_timer' = IF ot <= 0 THEN ObstacleInterval(d1) ELSE ot
                 /\ collectible_spawn_timer' = ctNext
                 /\ obstacles' = obs1
                 /\ sounds' = FrameSounds(c, player, dead, picked, got.picked)
                 /\ IF dead
                    THEN \* game_over()
                         /\ state' = "GameOver"
                         /\ score' = sc1
                         /\ high_score' = IF NewRecord(sc1, high_score) THEN sc1
                                          ELSE high_score
                         /\ saves' = IF NewRecord(sc1, high_score) THEN saves + 1
                                     ELSE saves
                         /\ \E out \in c.saveOutcomes :
                               file' = IF NewRecord(sc1, high_score)
                                       THEN SaveHighScore(file, sc1, out) ELSE file
                         /\ camera' = AddShake(cam1, 10, 30)
                         /\ particles' =
                                ps1 \o Burst(20, pos[1], pos[2], pos[3], v, "RED", 60)
                         /\ player' = p2
                         /\ collectibles' = cs1
                         /\ UNCHANGED <<coins, picked>>
                    ELSE /\ state' = "Playing"
                         /\ score' = got.score
                         /\ coins' = got.coins
                         /\ player' = [p2 EXCEPT !.invulnerable_timer = got.inv]
                         /\ particles' = got.particles
                         /\ collectibles' = got.kept
                         /\ picked' = got.picked
                         /\ camera' = cam1
                         /\ UNCHANGED <<high_score, file, saves>>
    /\ jumpAge' = AgeAfterUpdate(player)
    /\ last' = "tick"
    /\ UNCHANGED <<running, sessions, calls, screen_pos>>

\* Game.update (update_game), one frame in state PLAYING
Tick(c) ==
    /\ running /\ state = "Playing"
    /\ player.z < c.maxZ
    /\ LET p1 == UpdateOf(player)
           dist1 == distance + (p1.vz \div 500) * speed_multiplier
           sc1 == dist1 \div 200
           step == DifficultyStep(sc1, difficulty)
           d1 == IF step THEN difficulty + 1 ELSE difficulty
           p2 == IF step THEN [p1 EXCEPT !.vz = @ + 500] ELSE p1
           ot == obstacle_spawn_timer - 1
           ct == collectible_spawn_timer - 1
       IN  \E jx \in Jitter(camera), jy \in Jitter(camera), v \in c.vels,
              newObs \in (IF ot <= 0 THEN ObSpawns(c, d1, p2.z) ELSE {<<>>}),
              newCs \in (IF ct <= 0 THEN CoSpawns(c, p2.z) ELSE {<<>>}),
              ctNext \in (IF ct <= 0 THEN c.coTimers ELSE {ct}) :
             LET cam1 == CameraUpdate(camera, p1, jx, jy)
                 obs1 == UpdateObstacles(obstacles \o newObs, GlobalPlayerZ(c, p2))
                 cs1 == UpdateCollectibles(collectibles \o newCs, GlobalPlayerZ(c, p2))
                 ps1 == ParticlesUpdate(particles)
                 view == GlobalCamera(c, cam1)
                 dead == Fatal(p2, view, obs1)
                 got == Collect(cs1, PlayerRect(p2, view), view, v,
                                [score |-> sc1, coins |-> coins,
                                 inv |-> p2.invulnerable_timer, particles |-> ps1,
                                 kept |-> <<>>, picked |-> picked])
                 pos == <<p2.x, FMilli(p2.y), p2.z>>
             IN  /\ distance' = dist1
                 /\ difficulty' = d1
                 /\ speed_multiplier' = IF step THEN speed_multiplier + 1
                                        ELSE speed_multiplier
                 /\ obstacle_spawn_timer' = IF ot <= 0 THEN ObstacleInterval(d1) ELSE ot
                 /\ collectible_spawn_timer' = ctNext
                 /\ obstacles' = obs1
                 /\ sounds' = FrameSounds(c, player, dead, picked, got.picked)
                 /\ IF dead
                    THEN \* game_over()
                         /\ state' = "GameOver"
                         /\ score' = sc1
                         /\ high_score' = IF NewRecord(sc1, high_score) THEN sc1
                                          ELSE high_score
                         /\ saves' = IF NewRecord(sc1, high_score) THEN saves + 1
                                     ELSE saves
                         /\ \E out \in c.saveOutcomes :
                               file' = IF NewRecord(sc1, high_score)
                                       THEN SaveHighScore(file, sc1, out) ELSE file
                         /\ camera' = AddShake(cam1, 10, 30)
                         /\ particles' =
                                ps1 \o Burst(20, pos[1], pos[2], pos[3], v, "RED", 60)
                         /\ player' = p2
                         /\ collectibles' = cs1
                         /\ UNCHANGED <<coins, picked>>
                    ELSE /\ state' = "Playing"
                         /\ score' = got.score
                         /\ coins' = got.coins
                         /\ player' = [p2 EXCEPT !.invulnerable_timer = got.inv]
                         /\ particles' = got.particles
                         /\ collectibles' = got.kept
                         /\ picked' = got.picked
                         /\ camera' = cam1
                         /\ UNCHANGED <<high_score, file, saves>>
    /\ jumpAge' = AgeAfterUpdate(player)
    /\ last' = "tick"
    /\ UNCHANGED <<running, sessions, calls, screen_pos>>

\* the part of the state no key pressed in state PLAYING touches
behind == <<camera, obstacles, collectibles, particles, score, coins, distance,
            speed_multiplier, difficulty, obstacle_spawn_timer,
            collectible_spawn_timer, high_score, file, saves, running, sessions,
            picked, screen_pos>>

\* events in state PLAYING are followed while the player is inside the window
\* of the scenario
InWindow(c) == player.z >= c.keysFrom /\ player.z < c.keysTo

\* KEYDOWN in state PLAYING, a player key
KeyPlayer(c, key, p) ==
    /\ running /\ state = "Playing"
    /\ calls < c.maxCalls
    /\ InWindow(c)
    /\ player' = p
    /\ calls' = calls + 1
    /\ last' = key
    /\ UNCHANGED <<state, behind>>

KeyJump(c) ==
    /\ KeyPlayer(c, "jump", Jump(player))
    /\ sounds' = [sounds EXCEPT !.jump = @ + KeySounds(player)]
    /\ jumpAge' = IF player.state = "Running" /\ player.y = FZero THEN 0 ELSE -1

KeySlide(c) ==
    /\ KeyPlayer(c, "slide", Slide(player))
    /\ sounds' = [sounds EXCEPT !.slide = @ + KeySounds(player)]
    /\ jumpAge' = -1

KeyLeft(c) ==
    KeyPlayer(c, "move_left", MoveLeft(player)) /\ jumpAge' = -1 /\ UNCHANGED sounds

KeyRight(c) ==
    KeyPlayer(c, "move_right", MoveRight(player)) /\ jumpAge' = -1 /\ UNCHANGED sounds

\* K_ESCAPE in state PLAYING
Pause(c) ==
    /\ running /\ state = "Playing"
    /\ InWindow(c)
    /\ state' = "Paused"
    /\ last' = "pause"
    /\ UNCHANGED <<player, behind, jumpAge, calls, sounds>>

\* mutant: resuming advances the player by one update
ResumeAdvances ==
    /\ running /\ state = "Paused"
    /\ state' = "Playing"
    /\ last' = "resume"
    /\ player' = PlayerUpdate(player)
    /\ UNCHANGED <<behind, jumpAge, calls, sounds>>

\* K_ESCAPE in state PAUSED
Resume ==
    /\ running /\ state = "Paused"
    /\ state' = "Playing"
    /\ last' = "resume"
    /\ UNCHANGED <<player, behind, jumpAge, calls, sounds>>

\* mutant: K_SPACE in state GAME_OVER resumes play
ToPlaying ==
    /\ running /\ state = "GameOver"
    /\ state' = "Playing"
    /\ last' = "menu"
    /\ UNCHANGED <<player, behind, jumpAge, calls, sounds>>

\* K_SPACE in state GAME_OVER
ToMenu ==
    /\ running /\ state = "GameOver"
    /\ state' = "Menu"
    /\ last' = "menu"
    /\ UNCHANGED <<player, behind, jumpAge, calls, sounds>>

\* a frame of Game.run in state MENU, PAUSED or GAME_OVER with no key event:
\* update() is not called
FrameIdle ==
    /\ running /\ state \in {"Menu", "Paused", "GameOver"}
    /\ last' = "frame"
    /\ UNCHANGED <<state, player, behind, jumpAge, calls, sounds>>

\* KEYDOWN of a player key (K_SPACE in PAUSED, K_DOWN, K_LEFT, K_RIGHT and
\* their letters) in state MENU, PAUSED or GAME_OVER: no branch handles it
KeyIgnored ==
    /\ running /\ state \in {"Menu", "Paused", "GameOver"}
    /\ last' = "ignored"
    /\ UNCHANGED <<state, player, behind, jumpAge, calls, sounds>>

\* pygame.QUIT, or K_ESCAPE in state MENU or GAME_OVER
Quit(c) ==
    /\ running
    /\ state = "Playing" => InWindow(c)
    /\ running' = FALSE
    /\ last' = "quit"
    /\ UNCHANGED <<state, player, camera, obstacles, collectibles, particles, score,
                   coins, distance, speed_multiplier, difficulty, obstacle_spawn_timer,
                   collectible_spawn_timer, high_score, file, saves, sessions, jumpAge,
                   calls, picked, screen_pos, sounds>>

----------------------------------------------------------------------------
(* Spec: sessions from construction, followed over the first obstacle *)

MaxTicks == 60
MaxSessions == 2
MaxKeys == 1
KeysFromTick == 26
KeysToTick == 31

Still == <<0, 0, 0>>

Levels == 1..10

Short ==
    [obOffs |-> {0}, obTypes |-> [d \in Levels |-> ObstacleTypes],
     obMulti |-> [d \in Levels |-> {FALSE}], obLanes |-> [d \in Levels |-> {0, 1}],
     coOff |-> 0,
     coKinds |-> {<<"coin", TRUE, 0>>, <<"gem", FALSE, 0>>, <<"powerup", FALSE, 0>>,
                  <<"coin", FALSE, 1>>},
     coTimers |-> {80}, vels |-> {Still},
     maxZ |-> MaxTicks * 8000, keysFrom |-> KeysFromTick * 8000,
     keysTo |-> KeysToTick * 8000, maxCalls |-> MaxKeys,
     maxSessions |-> MaxSessions, saveOutcomes |-> {"ok"}, instance |-> "game"]

Next ==
    \/ Start(Short)
    \/ Tick(Short)
    \/ KeyJump(Short)
    \/ KeySlide(Short)
    \/ KeyLeft(Short)
    \/ KeyRight(Short)
    \/ Pause(Short)
    \/ Resume
    \/ ToMenu
    \/ FrameIdle
    \/ KeyIgnored
    \/ Quit(Short)

Spec == Init /\ [][Next]_vars

----------------------------------------------------------------------------
(* SpecLong: one session of a player that is never steered, followed until *)
(* the difficulty has reached its cap and a further multiple of 500 has     *)
(* been scored. Obstacles come in lane 1, coins as lines in lane 0.         *)

LongRun == 47900

Long ==
    [obOffs |-> {0}, obTypes |-> [d \in Levels |-> {"barrier"}],
     obMulti |-> [d \in Levels |-> {FALSE}], obLanes |-> [d \in Levels |-> {1}],
     coOff |-> 0, coKinds |-> {<<"coin", TRUE, 0>>},
     coTimers |-> {60}, vels |-> {Still},
     maxZ |-> LongRun * 1000, keysFrom |-> 0, keysTo |-> 0, maxCalls |-> 0,
     maxSessions |-> 1, saveOutcomes |-> {"ok"}, instance |-> "game"]

NextLong == Start(Long) \/ Tick(Long)

SpecLong == Init /\ [][NextLong]_vars

----------------------------------------------------------------------------
(* SpecMid: one session followed into difficulty 5, where every obstacle    *)
(* type is drawn; until then barriers come in lane 1 (from difficulty 4    *)
(* also in lanes -1 and 0, leaving lane 1 safe) and coins in lane -1, and   *)
(* the player is steered once at difficulty 5.                              *)

MidKeysFrom == 17080
MidKeysTo == 17130
MidRun == 17490

Mid ==
    [obOffs |-> {0},
     obTypes |-> [d \in Levels |-> IF d < 5 THEN {"barrier"} ELSE ObstacleTypes],
     obMulti |-> [d \in Levels |-> {FALSE, TRUE}],
     obLanes |-> [d \in Levels |-> IF d < 5 THEN {1} ELSE {0, 1}],
     coOff |-> 0, coKinds |-> {<<"coin", FALSE, -1>>},
     coTimers |-> {60}, vels |-> {Still},
     maxZ |-> MidRun * 1000, keysFrom |-> MidKeysFrom * 1000,
     keysTo |-> MidKeysTo * 1000, maxCalls |-> MaxKeys,
     maxSessions |-> 1, saveOutcomes |-> {"ok"}, instance |-> "game"]

NextMid ==
    \/ Start(Mid)
    \/ Tick(Mid)
    \/ KeyJump(Mid)
    \/ KeySlide(Mid)
    \/ KeyLeft(Mid)
    \/ KeyRight(Mid)

SpecMid == Init /\ [][NextMid]_vars

----------------------------------------------------------------------------
(* Properties of the session *)

\* obstacle o is in the player's lane and its footprint overlaps the player's
Touches(p, cam, o) ==
    /\ o.active
    /\ o.lane = p.lane
    /\ CollideRect(PlayerRect(p, cam), EntityRect(o, cam, ObstacleSize))

\* the obstacles of the list that touch the player
Touching(p, cam, obs) == {i \in DOMAIN obs : Touches(p, cam, obs[i])}

\* C1: on a tick where the player, as updated by that tick, is not invulnerable,
\* the run ends exactly when some active obstacle of the player's lane overlaps
\* the player and is neither a barrier met while Sliding nor a gap met while
\* Jumping; so boulder, moving_barrier and spike_trap end it in every player state
C1_ObstacleOutcome ==
    [][ (last' = "tick" /\ PlayerUpdate(player).invulnerable_timer <= 0) =>
          LET p == PlayerUpdate(player)
              hit == Touching(p, camera', obstacles')
              spared(i) == \/ obstacles'[i].type = "barrier" /\ p.state = "Sliding"
                           \/ obstacles'[i].type = "gap" /\ p.state = "Jumping"
          IN  (state' = "GameOver") <=> (\E i \in hit : ~spared(i)) ]_vars

C1_Witness ==
    /\ last = "tick" /\ state = "GameOver"
    /\ player.state = "Sliding" /\ player.invulnerable_timer = 0
    /\ \E i \in Touching(player, camera, obstacles) : obstacles[i].type = "spike_trap"

\* C2: on a tick where the player, as updated by that tick, is still
\* invulnerable, the run does not end, whatever obstacle overlaps the player
C2_Invulnerable ==
    [][ (last' = "tick" /\ PlayerUpdate(player).invulnerable_timer > 0) =>
          state' # "GameOver" ]_vars

C2_Witness ==
    /\ last = "tick" /\ state = "Playing"
    /\ player.invulnerable_timer > 0 /\ player.invulnerable_timer < 180
    /\ player.state = "Running"
    /\ \E i \in Touching(player, camera, obstacles) : obstacles[i].type = "boulder"

\* the score that the distance alone gives: int(distance / 10)
DistanceScore == distance \div 200

\* C3 as stated: from the end of one tick to the end of the next, while the
\* session stays in Playing, score never goes down
C3_Original ==
    [][ (state = "Playing" /\ state' = "Playing") => score' >= score ]_vars

\* C4 as stated: while Playing, score is floor(distance/10) plus 10 per coin,
\* 50 per gem and 100 per powerup collected so far in the session
C4_Original ==
    state = "Playing" =>
        score = DistanceScore + 10 * picked.coin + 50 * picked.gem + 100 * picked.powerup

\* C5: difficulty is always in 1..10, is 1 after reset_game and never decreases
\* on any other step
C5_DifficultyRange ==
    /\ [](difficulty \in 1..10)
    /\ [][ IF last' = "start" THEN difficulty' = 1
           ELSE difficulty' >= difficulty ]_vars

\* the cap is met: at difficulty 10 a further multiple of 500 is scored
C5_Witness ==
    /\ last = "tick" /\ difficulty = 10
    /\ DistanceScore > 6000 /\ DistanceScore % 500 = 0

\* C6 as stated: in a first session, once the distance score is above 500 (and
\* below the next multiple of 500) exactly one step has been taken
C6_Original ==
    (state = "Playing" /\ DistanceScore > 500 /\ DistanceScore < 1000) =>
        (difficulty = 2 /\ speed_multiplier = 11 /\ player.vz = 8500)

----------------------------------------------------------------------------
(* Properties of the Player, continued (SpecPlayer) *)

\* C11 as stated: move_left() and move_right() called while the player is not
\* Running leave lane, state and turn_timer unchanged
C11_Original ==
    [][ (last' \in {"move_left", "move_right"} /\ player.state # "Running") =>
          /\ player'.lane = player.lane
          /\ player'.state = player.state
          /\ player'.turn_timer = player.turn_timer ]_vars

----------------------------------------------------------------------------
(* Properties of the session, continued *)

SamePlace(a, b) == a.x = b.x /\ a.y = b.y /\ a.z = b.z

\* C12: on a tick that leaves the session Playing, the items collected are those
\* that leave the list without having fallen 100 behind the player; each coin
\* gives coins +1, score +10 and 5 particles of life 30 at its position, each gem
\* coins +5, score +50 and 8 particles of life 40, each powerup score +100,
\* invulnerable_timer 180 and 10 particles of life 50; nothing else is changed
\* by collecting
C12_Rewards ==
    [][ (last' = "tick" /\ state' = "Playing") =>
          LET gone == {i \in DOMAIN collectibles :
                         /\ collectibles[i].z >= player'.z - 100000
                         /\ \A j \in DOMAIN collectibles' :
                               ~SamePlace(collectibles[i], collectibles'[j])}
              n(t) == Cardinality({i \in gone : collectibles[i].type = t})
              old == ParticlesUpdate(particles)
              fresh == SubSeq(particles', Len(old) + 1, Len(particles'))
              burst(t) == IF t = "coin" THEN 5 ELSE IF t = "gem" THEN 8 ELSE 10
              life(t) == IF t = "coin" THEN 30 ELSE IF t = "gem" THEN 40 ELSE 50
          IN  /\ coins' = coins + n("coin") + 5 * n("gem")
              /\ score' = distance' \div 200
                            + 10 * n("coin") + 50 * n("gem") + 100 * n("powerup")
              /\ player'.invulnerable_timer =
                    IF n("powerup") > 0 THEN 180
                    ELSE PlayerUpdate(player).invulnerable_timer
              /\ SubSeq(particles', 1, Len(old)) = old
              /\ Len(fresh) = 5 * n("coin") + 8 * n("gem") + 10 * n("powerup")
              /\ \A i \in gone :
                    Cardinality({k \in DOMAIN fresh :
                        /\ SamePlace(fresh[k], collectibles[i])
                        /\ fresh[k].life = life(collectibles[i].type)
                        /\ fresh[k].max_life = fresh[k].life})
                      = burst(collectibles[i].type) ]_vars

\* a powerup has just been collected
C12_Witness ==
    /\ last = "tick" /\ state = "Playing"
    /\ picked = [coin |-> 0, gem |-> 0, powerup |-> 1]
    /\ player.invulnerable_timer = 180 /\ coins = 0
    /\ score = DistanceScore + 100
    /\ Len(particles) = 10

\* C13: a tick spawns obstacles exactly when the spawn timer runs out; the
\* spawn adds either one obstacle or two of the same type at the same z in two
\* distinct lanes of {-1, 0, 1} (so one lane stays empty at that z), and it adds
\* one only while the difficulty is below 4
C13_MultiLane ==
    [][ last' = "tick" =>
          LET new == {j \in DOMAIN obstacles' :
                        \A i \in DOMAIN obstacles : obstacles[i].z # obstacles'[j].z}
          IN  IF obstacle_spawn_timer - 1 <= 0
              THEN /\ Cardinality(new) \in {1, 2}
                   /\ difficulty' < 4 => Cardinality(new) = 1
                   /\ \A j, k \in new :
                         /\ obstacles'[j].type = obstacles'[k].type
                         /\ obstacles'[j].z = obstacles'[k].z
                         /\ obstacles'[j].lane \in Lanes
                         /\ j # k => obstacles'[j].lane # obstacles'[k].lane
                   /\ Lanes \ {obstacles'[j].lane : j \in new} # {}
              ELSE new = {} ]_vars

\* a multi-lane spawn has just happened
C13_Witness ==
    /\ last = "tick" /\ difficulty >= 4
    /\ obstacle_spawn_timer = ObstacleInterval(difficulty)
    /\ \E j, k \in DOMAIN obstacles :
          /\ obstacles[j].z = obstacles[k].z
          /\ obstacles[j].lane # obstacles[k].lane
          /\ obstacles[j].z = player.z + 400000

----------------------------------------------------------------------------------------------------------------------------------------------
(* SpecEsc: sessions in which the only keys are confirm and ESC and the    *)
(* program is not quit. ESC is followed everywhere during play. A session  *)
(* is started when the menu shows, and ESC is pressed again and again      *)
(* while it does anything.                                                  *)

Esc == [Short EXCEPT !.keysFrom = 0, !.keysTo = (MaxTicks + 1) * 8000, !.maxCalls = 0]

EscKey == Pause(Esc) \/ Resume

NextEsc ==
    \/ Start(Esc)
    \/ Tick(Esc)
    \/ Pause(Esc)
    \/ Resume
    \/ ToMenu

SpecEsc ==
    /\ Init /\ [][NextEsc]_vars
    /\ WF_vars(Start(Esc))
    /\ WF_vars(EscKey)

\* C15 as stated: some ESC press made during play (in Playing or Paused) moves
\* the session to Menu
C15_Original == <>(state = "Menu" /\ last \in {"pause", "resume"})

\* C15, what ESC does during play: it only toggles between Playing and Paused
C15_EscToggles ==
    [][ last' \in {"pause", "resume"} =>
          \/ state = "Playing" /\ state' = "Paused"
          \/ state = "Paused" /\ state' = "Playing" ]_vars

\* ESC has been pressed in Playing and again in Paused
C15_Witness == state = "Playing" /\ last = "resume"

\* C16: every entry into Playing from Menu leaves high_score as it was and
\* starts from the reset state: score, coins and distance 0, speed_multiplier
\* 1.0, difficulty 1, both spawn timers 0, no obstacles, collectibles or
\* particles, a fresh player and a fresh camera
C16_Reset ==
    [][ (state = "Menu" /\ state' = "Playing") =>
          /\ high_score' = high_score
          /\ score' = 0 /\ coins' = 0 /\ distance' = 0
          /\ speed_multiplier' = 10 /\ difficulty' = 1
          /\ obstacle_spawn_timer' = 0 /\ collectible_spawn_timer' = 0
          /\ obstacles' = <<>> /\ collectibles' = <<>> /\ particles' = <<>>
          /\ player'.state = "Running" /\ player'.lane = 0
          /\ player'.x = 0 /\ player'.y = FZero /\ player'.z = 0
          /\ player'.vz = 8000 /\ player'.jump_velocity = FZero
          /\ player'.slide_timer = 0 /\ player'.turn_timer = 0
          /\ player'.invulnerable_timer = 0
          /\ camera'.x = 0 /\ camera'.y = -50000 /\ camera'.z = -200000
          /\ camera'.shake_duration = 0 ]_vars

\* a session has just been started after one that ended with a score
C16_Witness ==
    /\ last = "start" /\ state = "Playing" /\ sessions = 2
    /\ high_score > 0 /\ score = 0 /\ particles = <<>>

\* the simulation state that Game.update works on
sim == <<player, camera, distance, score, coins, difficulty, speed_multiplier,
         obstacle_spawn_timer, collectible_spawn_timer, obstacles, collectibles,
         particles>>

\* C17: no step taken in Menu, Paused or GameOver other than starting a session,
\* and neither the step that pauses nor the one that resumes, changes the
\* player, the camera, distance, score, coins, difficulty, speed_multiplier, the
\* spawn timers, the obstacles, the collectibles or the particles; player keys
\* pressed in those states are among these steps
C17_NoUpdate ==
    [][ ((state \in {"Menu", "Paused", "GameOver"} /\ last' # "start")
            \/ last' = "pause") => sim' = sim ]_vars

\* a player key has been pressed while a run under way is paused
C17_Witness ==
    /\ state = "Paused" /\ last = "ignored"
    /\ distance > 0 /\ obstacles # <<>> /\ player.z > 0

----------------------------------------------------------------------------
(* SpecSave: program runs over a high-score file. The program starts with   *)
(* the file missing or holding a score, sessions are played without player  *)
(* keys, a save may fail, and after a quit the program is started again.    *)

SaveRun ==
    [Short EXCEPT !.keysFrom = 0, !.keysTo = 0, !.maxCalls = 0,
                  !.saveOutcomes = {"ok", "denied", "torn"}]

\* the state after Game.__init__ over the file f
Constructed(f) ==
    /\ state = "Menu"
    /\ player = NewPlayer
    /\ camera = NewCamera
    /\ obstacles = <<>>
    /\ collectibles = <<>>
    /\ particles = <<>>
    /\ score = 0 /\ coins = 0 /\ distance = 0
    /\ speed_multiplier = 10 /\ difficulty = 1
    /\ obstacle_spawn_timer = 0 /\ collectible_spawn_timer = 0
    /\ high_score = LoadHighScore(f)
    /\ running = TRUE

InitStored ==
    /\ file \in {<<>>, <<20>>, <<30>>}
    /\ Constructed(file)
    /\ saves = 0
    /\ sessions = 0
    /\ jumpAge = -1
    /\ calls = 0
    /\ last = "init"
    /\ picked = NoPicks
    /\ screen_pos = <<>>
    /\ sounds = NoSounds

\* the program is started again after it was quit: Game.__init__, which sets
\* the fields that reset_game sets to the same values
Launch ==
    /\ ~running
    /\ running' = TRUE
    /\ state' = "Menu"
    /\ ResetGame
    /\ high_score' = LoadHighScore(file)
    /\ last' = "launch"
    /\ picked' = NoPicks
    /\ jumpAge' = -1
    /\ UNCHANGED <<file, saves, sessions, calls, screen_pos, sounds>>

NextSave ==
    \/ Start(SaveRun)
    \/ Tick(SaveRun)
    \/ ToMenu
    \/ Quit(SaveRun)
    \/ Launch

SpecSave == InitStored /\ [][NextSave]_vars


\* C18: on a fatal hit high_score becomes the larger of high_score and score,
\* and a save is requested exactly when score is above the old high_score; no
\* other step requests a save, high_score never decreases while the program
\* runs, and in every GameOver state high_score >= score
C18_HighScore ==
    /\ [](state = "GameOver" => high_score >= score)
    /\ [][ /\ (last' = "tick" /\ state' = "GameOver") =>
                /\ high_score' = IF score' > high_score THEN score' ELSE high_score
                /\ saves' = IF score' > high_score THEN saves + 1 ELSE saves
           /\ ~(last' = "tick" /\ state' = "GameOver") => saves' = saves
           /\ last' # "launch" => high_score' >= high_score ]_vars

\* a run has just ended level with the record that the run before it set and
\* saved
C18_Witness ==
    /\ last = "tick" /\ state = "GameOver"
    /\ sessions = 2 /\ saves = 1
    /\ score > 0 /\ score = high_score /\ file = <<high_score>>

\* C19: a program started over a missing or unreadable file has high_score 0;
\* whatever becomes of the save, a fatal hit leaves the program running in
\* GameOver with high_score updated in memory, the shake set to 10 for 30
\* ticks and 20 particles of life 60 added
C19_Persistence ==
    /\ [][ (last' = "launch" /\ file = <<>>) =>
              (high_score' = 0 /\ state' = "Menu" /\ running') ]_vars
    /\ [][ (last' = "tick" /\ state' = "GameOver") =>
              LET old == ParticlesUpdate(particles)
              IN  /\ running'
                  /\ high_score' >= score'
                  /\ camera'.shake_intensity = 10 /\ camera'.shake_duration = 30
                  /\ Len(particles') = Len(old) + 20
                  /\ \A k \in Len(old) + 1 .. Len(particles') :
                        particles'[k].life = 60 ]_vars

\* the save of a new record has just failed
C19_Witness ==
    /\ last = "tick" /\ state = "GameOver" /\ running
    /\ sessions = 1 /\ saves = 1
    /\ high_score = score /\ file # <<high_score>>
    /\ camera.shake_duration = 30


----------------------------------------------------------------------------
(* C20: the order of the stages of one frame of update_game.                 *)

\* the obstacle timer runs out on the frame that starts in this state
ObstacleDue == obstacle_spawn_timer - 1 <= 0

\* C20: within one Playing tick the stages run in the order player, camera,
\* distance and score, difficulty, spawning, entity update and culling,
\* particles, collision. Each stage reads what the stages before it wrote in
\* the same tick: the camera follows the updated player; the distance is
\* advanced with the velocity and multiplier from before the difficulty step;
\* the difficulty step reads the recomputed score; the obstacle timer is reset
\* from the stepped difficulty and the obstacles spawned are placed ahead of the
\* updated player with a type the stepped difficulty allows, and are in the
\* collection the collision stage reads; culling is relative to the updated
\* player; and the run ends on this tick exactly when the updated player, seen
\* by the updated camera, is hit by an obstacle of the updated collection.
C20_StageOrder ==
    [][ (last' = "tick" /\ state = "Playing") =>
          LET p1 == PlayerUpdate(player)
              stepped == DifficultyStep(distance' \div 200, difficulty)
              n == Len(obstacles')
          IN  /\ player'.x = p1.x /\ player'.y = p1.y /\ player'.z = p1.z
              /\ player'.state = p1.state
              /\ \E jx \in Jitter(camera), jy \in Jitter(camera) :
                    LET cam1 == CameraUpdate(camera, player', jx, jy)
                    IN  camera'.x = cam1.x /\ camera'.y = cam1.y /\ camera'.z = cam1.z
              /\ distance' = distance + (player.vz \div 500) * speed_multiplier
              /\ difficulty' = IF stepped THEN difficulty + 1 ELSE difficulty
              /\ player'.vz = IF stepped THEN player.vz + 500 ELSE player.vz
              /\ obstacle_spawn_timer' = IF ObstacleDue THEN ObstacleInterval(difficulty')
                                         ELSE obstacle_spawn_timer - 1
              /\ ObstacleDue =>
                    /\ n >= 1
                    /\ obstacles'[n].z >= player'.z + 400000
                    /\ obstacles'[n].type \in ObstacleTypesAt(difficulty')
              /\ \A i \in 1..n : obstacles'[i].z >= player'.z - 300000
              /\ Len(particles') >= Len(ParticlesUpdate(particles))
              /\ state' = "GameOver" <=> Fatal(player', camera', obstacles')
      ]_vars

\* the tick on which the score reached 500 has just run: the difficulty and the
\* forward velocity were stepped on that same tick
C20_Witness ==
    /\ last = "tick" /\ state = "Playing"
    /\ distance \div 200 = 500
    /\ (distance - ((player.vz - 500) \div 500) * (speed_multiplier - 1)) \div 200 < 500
    /\ difficulty = 2


----------------------------------------------------------------------------
(* SpecMain: the program as main.py starts it. main() builds an EnhancedGame *)
(* and runs it, while the name "game" that the entities read stays bound to  *)
(* the Game() that importing temple_runner built.                            *)

Main == [Short EXCEPT !.instance = "EnhancedGame"]

NextMain ==
    \/ Start(Main)
    \/ Tick(Main)
    \/ KeyJump(Main)
    \/ KeySlide(Main)
    \/ KeyLeft(Main)
    \/ KeyRight(Main)
    \/ ToMenu

\* the state after EnhancedGame.__init__: Game.__init__, then the player is
\* replaced by an EnhancedPlayer
InitMain ==
    /\ state = "Menu"
    /\ player = NewEnhancedPlayer
    /\ camera = NewCamera
    /\ obstacles = <<>>
    /\ collectibles = <<>>
    /\ particles = <<>>
    /\ score = 0 /\ coins = 0 /\ distance = 0
    /\ speed_multiplier = 10 /\ difficulty = 1
    /\ obstacle_spawn_timer = 0 /\ collectible_spawn_timer = 0
    /\ high_score = 0
    /\ file = <<>>
    /\ saves = 0
    /\ running = TRUE
    /\ sessions = 0
    /\ jumpAge = -1
    /\ calls = 0
    /\ last = "init"
    /\ picked = NoPicks
    /\ screen_pos = <<>>
    /\ sounds = NoSounds

SpecMain == InitMain /\ [][NextMain]_vars


----------------------------------------------------------------------------
(* C21: culling of entities that fall behind the player.                     *)

\* C21 as stated: after every Playing tick every obstacle of the session is
\* active and at most 300 units behind the session's own player, and every
\* collectible is active and at most 100 units behind it
C21_Original ==
    last = "tick" =>
        /\ \A i \in DOMAIN obstacles :
              obstacles[i].active /\ obstacles[i].z >= player.z - 300000
        /\ \A i \in DOMAIN collectibles :
              collectibles[i].active /\ collectibles[i].z >= player.z - 100000


----------------------------------------------------------------------------
(* SpecPower: one session in which the first collectible may be a powerup,   *)
(* with boulders in lane 0 all along, followed past the end of the           *)
(* invulnerability; the player may slide or move left once while the second  *)
(* collectible approaches.                                                   *)

PowerRun == 240
PowerKeysFrom == 100
PowerKeysTo == 108

Power ==
    [obOffs |-> {0}, obTypes |-> [d \in Levels |-> {"boulder"}],
     obMulti |-> [d \in Levels |-> {FALSE}], obLanes |-> [d \in Levels |-> {0}],
     coOff |-> 120,
     coKinds |-> {<<"powerup", FALSE, 0>>, <<"coin", FALSE, 0>>},
     coTimers |-> {80}, vels |-> {Still},
     maxZ |-> PowerRun * 8000, keysFrom |-> PowerKeysFrom * 8000,
     keysTo |-> PowerKeysTo * 8000, maxCalls |-> MaxKeys,
     maxSessions |-> 1, saveOutcomes |-> {"ok"}, instance |-> "game"]

NextPower ==
    \/ Start(Power)
    \/ Tick(Power)
    \/ KeySlide(Power)
    \/ KeyLeft(Power)

SpecPower == Init /\ [][NextPower]_vars


----------------------------------------------------------------------------
(* C22: pickup of collectibles.                                              *)

\* the collectible e overlaps the player p, both seen through cam
Reaches(p, cam, e) ==
    CollideRect(PlayerRect(p, cam), EntityRect(e, cam, CollectibleSize))

----------------------------------------------------------------------------
(* SpecProject: project_3d_to_2d applied to one particle, as                 *)
(* ParticleSystem.draw does, for camera and particle positions drawn from    *)
(* bounded sets that put the particle in front of, level with and behind the *)
(* camera.                                                                   *)

ProjCameraXs == {0, 10000}
ProjCameraZs == {-200000, 0, 144000}
ProjXs == {-60000, -1, 0, 1, 60000}
ProjYs == {-100000, -50001, -50000, 0, 20000}
ProjRelZs == {-50000, -1, 0, 1, 50, 100, 272000}

InitProject ==
    /\ state = "Playing"
    /\ player = NewPlayer
    /\ \E cx \in ProjCameraXs, cz \in ProjCameraZs :
          camera = [NewCamera EXCEPT !.x = cx, !.z = cz]
    /\ obstacles = <<>>
    /\ collectibles = <<>>
    /\ \E x \in ProjXs, y \in ProjYs, rz \in ProjRelZs :
          particles = Burst(1, x, y, camera.z + rz, Still, "GOLD", 30)
    /\ score = 0 /\ coins = 0 /\ distance = 0
    /\ speed_multiplier = 10 /\ difficulty = 1
    /\ obstacle_spawn_timer = 0 /\ collectible_spawn_timer = 0
    /\ high_score = 0
    /\ file = <<>>
    /\ saves = 0
    /\ running = TRUE
    /\ sessions = 1
    /\ jumpAge = -1
    /\ calls = 0
    /\ last = "init"
    /\ picked = NoPicks
    /\ screen_pos = <<>>
    /\ sounds = NoSounds

\* ParticleSystem.draw: camera.project_3d_to_2d(particle['pos'])
DrawParticle ==
    /\ last = "init"
    /\ screen_pos' = Project(camera, particles[1].x, particles[1].y, particles[1].z)
    /\ last' = "project"
    /\ UNCHANGED <<state, player, camera, obstacles, collectibles, particles, score,
                   coins, distance, speed_multiplier, difficulty, obstacle_spawn_timer,
                   collectible_spawn_timer, high_score, file, saves, running, sessions,
                   jumpAge, calls, picked, sounds>>

NextProject == DrawParticle

SpecProject == InitProject /\ [][NextProject]_vars

\* C23: for a point whose z relative to the camera is <= 0 the projection is
\* the one for a relative z of 0.1, that is rel * fov / 0.1 + centre in each
\* coordinate (the division is by 0.1, never by zero), and the screen offsets
\* from the centre are not inverted: they are never on the side opposite to the
\* relative x and y, and are 0 when these are 0.
C23_BehindCamera ==
    last = "project" =>
        LET q == particles[1]
            rel_x == q.x - camera.x
            rel_y == q.y - camera.y
            off_x == screen_pos[1] - ScreenWidth \div 2
            off_y == screen_pos[2] - ScreenHeight \div 2
        IN  q.z - camera.z <= 0 =>
              /\ off_x = TruncDiv(rel_x * Fov * 10, 1000)
              /\ off_y = TruncDiv(rel_y * Fov * 10, 1000)
              /\ (rel_x > 0 => off_x >= 0) /\ (rel_x < 0 => off_x <= 0)
              /\ (rel_x = 0 => off_x = 0)
              /\ (rel_y > 0 => off_y >= 0) /\ (rel_y < 0 => off_y <= 0)
              /\ (rel_y = 0 => off_y = 0)

\* a particle behind the camera, to its right and below it, has been projected
C23_Witness ==
    /\ last = "project"
    /\ particles[1].z < camera.z
    /\ particles[1].x > camera.x /\ particles[1].y < camera.y
    /\ screen_pos[1] > ScreenWidth \div 2 /\ screen_pos[2] < ScreenHeight \div 2


----------------------------------------------------------------------------
(* C24: the height of a player who is not jumping (SpecPlayer).              *)

\* C24 as stated: position.y is never negative, and is exactly 0 whenever the
\* player's state is not Jumping
C24_Original ==
    /\ ~FIsNeg(player.y)
    /\ player.state # "Jumping" => player.y = FZero


----------------------------------------------------------------------------
(* C25: whose player and camera the entities of a session read (SpecMain).   *)

\* C25 as stated: after a tick of a session the run has ended exactly when an
\* obstacle overlaps the session's player as projected through the session's
\* camera, no collectible left in the collection overlaps that player through
\* that camera, and both collections are culled relative to that player's z
C25_Original ==
    last = "tick" =>
        /\ state = "GameOver" <=> Fatal(player, camera, obstacles)
        /\ state = "Playing" =>
              \A i \in DOMAIN collectibles : ~Reaches(player, camera, collectibles[i])
        /\ \A i \in DOMAIN obstacles : obstacles[i].z >= player.z - 300000
        /\ \A i \in DOMAIN collectibles : collectibles[i].z >= player.z - 100000


----------------------------------------------------------------------------
(* C26: how long a powerup protects (SpecPower).                             *)

\* C26 as stated: the collision check of each of the 180 ticks after the one
\* that collected a powerup does not end the run. collect_item leaves the timer
\* at 180 and every update takes 1 off, so the tick that starts with the timer
\* at n >= 1 is tick 181 - n after the pickup: ticks t+1 .. t+180 are those
\* that start with the timer at 1 or more.
C26_Original ==
    [][ (last' = "tick" /\ player.invulnerable_timer >= 1) => state' # "GameOver" ]_vars

\* the protection the timer gives: a tick that starts with the timer at n >= 1
\* leaves it at n - 1, or at 180 when it collects a powerup, and a tick that
\* starts with the timer at 2 or more (ticks t+1 .. t+179) does not end the run
C26_Protected ==
    [][ (last' = "tick" /\ player.invulnerable_timer >= 1) =>
          /\ player'.invulnerable_timer \in {player.invulnerable_timer - 1, 180}
          /\ player.invulnerable_timer >= 2 => state' # "GameOver" ]_vars

\* tick t+179 has run with a boulder of the player's lane overlapping the
\* player: the run goes on, and the timer has reached 1
C26_Witness ==
    /\ last = "tick" /\ state = "Playing"
    /\ picked.powerup = 1
    /\ player.invulnerable_timer = 1
    /\ Touching(player, camera, obstacles) # {}


----------------------------------------------------------------------------
(* SpecTypes: one session without input followed into difficulty 5, every    *)
(* obstacle type being offered to spawn_obstacle at every difficulty (in     *)
(* lane 1, which the player never enters).                                   *)

TypesRun == 17100

Types ==
    [obOffs |-> {0}, obTypes |-> [d \in Levels |-> ObstacleTypes],
     obMulti |-> [d \in Levels |-> {FALSE}], obLanes |-> [d \in Levels |-> {1}],
     coOff |-> 0, coKinds |-> {<<"coin", FALSE, -1>>},
     coTimers |-> {60}, vels |-> {Still},
     maxZ |-> TypesRun * 1000, keysFrom |-> 0, keysTo |-> 0, maxCalls |-> 0,
     maxSessions |-> 1, saveOutcomes |-> {"ok"}, instance |-> "game"]

NextTypes == Start(Types) \/ Tick(Types)

SpecTypes == Init /\ [][NextTypes]_vars

\* C27: every obstacle of the collection has one of the five types; a
\* moving_barrier is in it only at difficulty 3 or more and a spike_trap only at
\* difficulty 5 or more, and the obstacles a tick adds have a type allowed at
\* the difficulty of that tick
C27_TypeGate ==
    /\ [](\A i \in DOMAIN obstacles :
            /\ obstacles[i].type \in
                 {"barrier", "gap", "boulder", "moving_barrier", "spike_trap"}
            /\ obstacles[i].type = "moving_barrier" => difficulty >= 3
            /\ obstacles[i].type = "spike_trap" => difficulty >= 5)
    /\ [][ (last' = "tick" /\ obstacle_spawn_timer - 1 <= 0) =>
             LET o == obstacles'[Len(obstacles')]
             IN  /\ difficulty' < 3 => o.type \in {"barrier", "gap", "boulder"}
                 /\ difficulty' < 5 => o.type # "spike_trap" ]_vars

\* a spike_trap spawned at difficulty 5 is in the collection
C27_Witness ==
    /\ last = "tick" /\ difficulty = 5
    /\ \E i \in DOMAIN obstacles : obstacles[i].type = "spike_trap"


----------------------------------------------------------------------------
(* C28: the obstacle spawn timer (SpecLong).                                 *)

\* the ticks run so far in a session that is still at difficulty 1, where
\* every tick adds 8 units (160 twentieths) to the distance
TicksAtFirstLevel == distance \div 160

\* C28: reset_game leaves the obstacle timer at 0 and only a tick changes it
\* afterwards. A tick takes 1 off; when that leaves it at 0 or less,
\* spawn_obstacle runs once (its obstacles share one z ahead of the player) and
\* the timer is set to max(30, 90 - 5 * difficulty); otherwise no obstacle is
\* added. So the first tick of a session spawns, and the next spawn is that
\* many ticks after the last: at difficulty 1 the spawns are on ticks 1, 86,
\* 171, ... exactly.
C28_SpawnTimer ==
    /\ [][ LET interval == IF 90 - 5 * difficulty' > 30 THEN 90 - 5 * difficulty' ELSE 30
               added == {j \in DOMAIN obstacles' :
                           \A i \in DOMAIN obstacles : obstacles[i].z # obstacles'[j].z}
           IN  /\ last' = "start" => obstacle_spawn_timer' = 0
               /\ last' \notin {"start", "tick"} =>
                     obstacle_spawn_timer' = obstacle_spawn_timer
               /\ last' = "tick" =>
                     IF obstacle_spawn_timer - 1 <= 0
                     THEN /\ obstacle_spawn_timer' = interval
                          /\ added # {}
                          /\ \A j \in added : obstacles'[j].z >= player'.z + 400000
                          /\ \A j, k \in added : obstacles'[j].z = obstacles'[k].z
                     ELSE /\ obstacle_spawn_timer' = obstacle_spawn_timer - 1
                          /\ added = {}
               /\ (last = "start" /\ last' = "tick") => added # {}
         ]_vars
    /\ []((last = "tick" /\ difficulty = 1) =>
            (obstacle_spawn_timer = 85 <=> TicksAtFirstLevel % 85 = 1))

\* the second spawn of a session has just happened, on tick 86 = 1 + 85: the
\* two obstacles are 85 ticks' run apart
C28_Witness ==
    /\ last = "tick" /\ difficulty = 1
    /\ TicksAtFirstLevel = 86
    /\ obstacle_spawn_timer = 85
    /\ Len(obstacles) = 2
    /\ obstacles[2].z - obstacles[1].z = 85 * 8000


----------------------------------------------------------------------------
(* C29: the collectible spawn timer.                                         *)

\* C29 as stated: a tick that spawns collectibles leaves the collectible timer
\* at an integer of the half-open range [40, 80)
C29_Original ==
    [][ (last' = "tick" /\ collectible_spawn_timer - 1 <= 0) =>
          (collectible_spawn_timer' >= 40 /\ collectible_spawn_timer' < 80) ]_vars


----------------------------------------------------------------------------
(* SpecBonus: one session without input up to the first difficulty steps,    *)
(* with a powerup or a coin in the player's lane every 60 ticks.             *)

BonusRun == 5100

Bonus ==
    [obOffs |-> {0}, obTypes |-> [d \in Levels |-> {"barrier"}],
     obMulti |-> [d \in Levels |-> {FALSE}], obLanes |-> [d \in Levels |-> {1}],
     coOff |-> 120,
     coKinds |-> {<<"powerup", FALSE, 0>>, <<"coin", FALSE, 0>>},
     coTimers |-> {60}, vels |-> {Still},
     maxZ |-> BonusRun * 1000, keysFrom |-> 0, keysTo |-> 0, maxCalls |-> 0,
     maxSessions |-> 1, saveOutcomes |-> {"ok"}, instance |-> "game"]

NextBonus == Start(Bonus) \/ Tick(Bonus)

SpecBonus == Init /\ [][NextBonus]_vars

\* C30: the difficulty goes up by exactly 1 on the ticks on which
\* floor(distance / 10), as recomputed on that tick, is a positive multiple of
\* 500 while the difficulty is below 10, and on no other tick, whatever the
\* score with its item bonuses was before the tick; reset_game sets it to 1 and
\* no other step changes it
C30_StepOnDistance ==
    [][ /\ last' = "tick" =>
             LET recomputed == distance' \div 200
             IN  difficulty' =
                    IF recomputed > 0 /\ recomputed % 500 = 0 /\ difficulty < 10
                    THEN difficulty + 1 ELSE difficulty
        /\ last' = "start" => difficulty' = 1
        /\ last' \notin {"tick", "start"} => difficulty' = difficulty ]_vars

\* a powerup collected at distance score 400 has made the score exactly 500,
\* and the difficulty is still 1
C30_Witness ==
    /\ last = "tick" /\ state = "Playing"
    /\ DistanceScore = 400 /\ score = 500
    /\ difficulty = 1


----------------------------------------------------------------------------
(* SpecCrash: sessions of a player that is never steered, with a boulder in  *)
(* lane 0 and a collectible in lane 0 placed so that the player's footprint  *)
(* first overlaps both on the same tick; after the crash the game is taken   *)
(* back to the menu and started again.                                       *)

CrashRun == 40

Crash ==
    [obOffs |-> {0}, obTypes |-> [d \in Levels |-> {"boulder"}],
     obMulti |-> [d \in Levels |-> {FALSE}], obLanes |-> [d \in Levels |-> {0}],
     coOff |-> 130,
     coKinds |-> {<<"coin", FALSE, 0>>, <<"gem", FALSE, 0>>, <<"powerup", FALSE, 0>>,
                  <<"coin", FALSE, 1>>},
     coTimers |-> {80}, vels |-> {Still},
     maxZ |-> CrashRun * 8000, keysFrom |-> 0, keysTo |-> 0, maxCalls |-> 0,
     maxSessions |-> MaxSessions, saveOutcomes |-> {"ok"}, instance |-> "game"]

NextCrash ==
    \/ Start(Crash)
    \/ Tick(Crash)
    \/ ToMenu
    \/ FrameIdle

SpecCrash == Init /\ [][NextCrash]_vars

----------------------------------------------------------------------------
(* C31: a fatal hit ends the collision processing of the tick.               *)

\* C31: a tick that ends in GameOver starts in Playing (game_over is not run
\* again afterwards), compares the score with the high score once (at most one
\* save, the high score becomes the larger of the two), adds exactly 20
\* particles to those that survive the tick, and collects nothing: coins and
\* the pickup counts are unchanged, the score is the distance score, and the
\* collection is the updated collection with nothing removed by a pickup.
C31_FatalEndsChecks ==
    [][ (last' = "tick" /\ state' = "GameOver") =>
          /\ state = "Playing"
          /\ Len(particles') = Len(ParticlesUpdate(particles)) + 20
          /\ coins' = coins /\ picked' = picked
          /\ score' = distance' \div 200
          /\ high_score' = (IF score' > high_score THEN score' ELSE high_score)
          /\ saves' = (IF score' > high_score THEN saves + 1 ELSE saves)
          /\ \E new \in {<<>>} \cup CoSpawns(Crash, player'.z) :
                collectibles' = UpdateCollectibles(collectibles \o new, player'.z)
      ]_vars

\* the run has just ended on a tick on which a collectible overlaps the player
C31_Witness ==
    /\ last = "tick" /\ state = "GameOver"
    /\ \E i \in DOMAIN collectibles : Reaches(player, camera, collectibles[i])
    /\ Len(particles) = 20
    /\ picked = NoPicks /\ coins = 0


----------------------------------------------------------------------------
(* C32: only obstacles of the player's logical lane can end the run.          *)

\* the footprint of obstacle o overlaps the player's, whatever the lanes
Overlaps(p, cam, o) ==
    o.active /\ CollideRect(PlayerRect(p, cam), EntityRect(o, cam, ObstacleSize))

\* C32: a tick ends the run only if an obstacle of the player's lane overlaps
\* the player, so obstacles of other lanes never do, overlapping or not; and
\* move_left / move_right that take effect change the lane by one at once and
\* leave position.x, which only the following updates move, as it was.
C32_LaneMatch ==
    [][ /\ (last' = "tick" /\ state' = "GameOver") =>
               \E i \in DOMAIN obstacles' :
                  /\ obstacles'[i].lane = player'.lane
                  /\ Overlaps(player', camera', obstacles'[i])
        /\ (last' = "move_left" /\ player.lane > -1) =>
               (player'.lane = player.lane - 1 /\ player'.x = player.x)
        /\ (last' = "move_right" /\ player.lane < 1) =>
               (player'.lane = player.lane + 1 /\ player'.x = player.x)
      ]_vars

\* the first collision check after a move to the left: the player, still nearer
\* to the middle of lane 0 than to that of lane -1 and not invulnerable, overlaps
\* an obstacle of lane 0 that nothing avoids, and the run goes on
C32_Witness ==
    /\ last = "tick" /\ state = "Playing"
    /\ player.lane = -1 /\ player.x > -30000
    /\ player.state = "TurningLeft" /\ player.turn_timer = TurnTicks - 1
    /\ player.invulnerable_timer = 0
    /\ \E i \in DOMAIN obstacles :
          /\ obstacles[i].lane = 0
          /\ obstacles[i].type = "boulder"
          /\ Overlaps(player, camera, obstacles[i])


----------------------------------------------------------------------------
(* C33: the length of a slide (SpecPlayer).                                   *)

\* C33: slide() from Running sets slide_timer to 30 and the state to Sliding;
\* an update of a Sliding player takes exactly 1 off slide_timer and leaves the
\* player Sliding while the result is positive, Running once it is 0; an update
\* of a player in any other state leaves slide_timer alone. So the player is
\* Sliding after each of the 29 updates that follow the slide (slide_timer 29
\* down to 1) and Running after the 30th. The footprint of a Sliding player is
\* half as high as the player's size, that of any other player twice as high.
C33_SlideTiming ==
    /\ [](player.state = "Sliding" =>
             player.slide_timer >= 1 /\ player.slide_timer <= 30)
    /\ [](PlayerRect(player, camera).h =
             IF player.state = "Sliding" THEN 10 ELSE 40)
    /\ [][ /\ (last' = "slide" /\ player.state = "Running") =>
                 (player'.state = "Sliding" /\ player'.slide_timer = 30)
           /\ (last' = "update" /\ player.state = "Sliding") =>
                 /\ player'.slide_timer = player.slide_timer - 1
                 /\ player'.state = (IF player.slide_timer > 1 THEN "Sliding"
                                     ELSE "Running")
           /\ (last' = "update" /\ player.state # "Sliding") =>
                 player'.slide_timer = player.slide_timer
         ]_vars

\* the 29th update after a slide() that was the only call: still Sliding
C33_Witness ==
    /\ last = "update" /\ calls = 1
    /\ player.state = "Sliding" /\ player.slide_timer = 1
    /\ player.z >= 29 * player.vz


----------------------------------------------------------------------------
(* C34: the effects of game_over on the camera and the particles.             *)

\* C34: a tick that ends in GameOver leaves the camera with shake intensity 10
\* and duration 30 and adds, to the particles that survive the tick, exactly 20
\* particles of life 60 (of 60) at the player's position; shake_duration is
\* never negative; and a tick that starts with shake_duration 0 moves the
\* camera by the smoothing alone: position.y is unchanged and position.x is
\* advanced a tenth of the way to 0.3 * player x, with no jitter added.
C34_GameOverEffects ==
    /\ [](camera.shake_duration >= 0)
    /\ [][ /\ (last' = "tick" /\ state' = "GameOver") =>
                 /\ camera'.shake_intensity = 10
                 /\ camera'.shake_duration = 30
                 /\ Len(particles') = Len(ParticlesUpdate(particles)) + 20
                 /\ \A k \in (Len(particles') - 19)..Len(particles') :
                       /\ particles'[k].life = 60 /\ particles'[k].max_life = 60
                       /\ particles'[k].x = player'.x
                       /\ particles'[k].y = FMilli(player'.y)
                       /\ particles'[k].z = player'.z
           /\ (last' = "tick" /\ camera.shake_duration = 0) =>
                 /\ camera'.y = camera.y
                 /\ camera'.x = camera.x
                       + TruncDiv(TruncDiv(player'.x * 3, 10) - camera.x, 10)
         ]_vars

\* the second session has just ended in a crash: the camera is set to shake and
\* the 20 particles of the explosion are the whole pool
C34_Witness ==
    /\ last = "tick" /\ state = "GameOver" /\ sessions = 2
    /\ camera.shake_intensity = 10 /\ camera.shake_duration = 30
    /\ Len(particles) = 20
    /\ \A i \in DOMAIN particles : particles[i].life = 60 /\ particles[i].color = "RED"


----------------------------------------------------------------------------
(* C35: the sounds of the player in the game main.py starts (SpecMain).       *)

\* C35 as stated: in a Playing session of the EnhancedGame every jump() and
\* every slide() called on a Running player requests its sound, and a player
\* that has been Running through the first 20 ticks of a session has had a
\* footstep requested.
C35_Original ==
    /\ [][ /\ (last' = "jump" /\ player.state = "Running") =>
                 sounds'.jump = sounds.jump + 1
           /\ (last' = "slide" /\ player.state = "Running") =>
                 sounds'.slide = sounds.slide + 1 ]_vars
    /\ [](state = "Playing" /\ calls = 0 /\ player.z >= 20 * player.vz =>
             sounds.footstep >= 1)

\* C35, what the program does: once a session has been started from the menu
\* the player is the plain Player reset_game built, never an EnhancedPlayer,
\* and no jump, slide or footstep sound is requested at any time; the sounds
\* EnhancedGame itself requests are: one per item collected, by type, and one
\* per game_over.
C35_PlainPlayer ==
    /\ [](sessions >= 1 => ~IsEnhanced(player))
    /\ [](sounds.jump = 0 /\ sounds.slide = 0 /\ sounds.footstep = 0)
    /\ [][ last' = "tick" =>
             /\ \A ty \in CollectibleTypes :
                   sounds'[ty] - sounds[ty] = picked'[ty] - picked[ty]
             /\ sounds'.collision - sounds.collision
                   = (IF state' = "GameOver" THEN 1 ELSE 0) ]_vars

\* a jump() has just taken effect in a session in which an item was collected
\* with its sound, and no jump sound was requested
C35_Witness ==
    /\ last = "jump" /\ state = "Playing"
    /\ player.state = "Jumping" /\ jumpAge = 0
    /\ sounds.jump = 0 /\ sounds.footstep = 0
    /\ sounds.coin + sounds.gem + sounds.powerup >= 1


----------------------------------------------------------------------------
(* C36: the score is recomputed from the distance on every tick.              *)

----------------------------------------------------------------------------
(* C37: the final score of a run.                                             *)

----------------------------------------------------------------------------
(* C38: the camera shake of game_over is never played.                        *)

\* the pool ps ends with the 20 particles of game_over, as they were added
Explosion(ps) ==
    /\ Len(ps) >= 20
    /\ \A k \in (Len(ps) - 19)..Len(ps) : ps[k].life = 60 /\ ps[k].color = "RED"

\* C38: in every Playing state the camera has shake_duration 0 and position.y
\* -50; in every GameOver state, and in every Menu state that follows one, the
\* camera still has shake_duration 30 and the 20 particles of the explosion
\* still have life 60; the start of a session replaces the camera by a new one
\* and empties the pool.
C38_ShakeNeverPlays ==
    /\ [](state = "Playing" => camera.shake_duration = 0 /\ camera.y = -50000)
    /\ [](state = "GameOver" \/ (state = "Menu" /\ sessions >= 1) =>
             camera.shake_duration = 30 /\ Explosion(particles))
    /\ [][ last' = "start" =>
             /\ camera'.shake_duration = 0 /\ camera'.y = -50000
             /\ particles' = <<>> ]_vars

\* a frame has passed in the menu after a crash: the shake has not counted
\* down and the particles of the explosion have not aged
C38_Witness ==
    /\ state = "Menu" /\ last = "frame" /\ sessions = 1
    /\ camera.shake_duration = 30 /\ camera.shake_intensity = 10
    /\ Explosion(particles)


----------------------------------------------------------------------------
(* C39: the height of the player (SpecPlayer).                                *)

\* C39 as stated: position.y is at most 144 in every reachable state.
C39_Original == ~FLess(F(144, 0, 0), player.y)

\* C39, what the program does: while at most two player calls have been made
\* position.y stays below 145 (a single jump peaks at 144.00000000000006);
\* it takes a third call to go higher.
C39_TwoCalls == calls <= 2 => player.y.i <= 144

\* a player that jumped, moved left near the apex and, Running again in
\* mid-air after the turn, jumped a second time: position.y is above 270
C39_Witness ==
    /\ last = "update" /\ calls = 3
    /\ player.state = "Jumping" /\ player.lane = -1
    /\ player.y.i >= 270


----------------------------------------------------------------------------
(* C40: speed as a function of the difficulty.                                *)

====
